---- MODULE Spec2Model ----
(***************************************************************************)
(* Model of the lesson-booking core of cmb22/space23: the atomic           *)
(* availability store (teacher_availability), the bookings table and the   *)
(* request handlers that mutate them (checkout, cancel, Stripe webhook,    *)
(* manual availability insert and delete).                                 *)
(*                                                                         *)
(* Every handler runs against PostgreSQL at its default isolation level    *)
(* (READ COMMITTED): each statement reads the rows committed at the time   *)
(* the statement runs plus the transaction's own writes; writes of a       *)
(* transaction become visible to others at COMMIT; an UPDATE or DELETE     *)
(* that meets a row locked by another open transaction waits for it, and   *)
(* a DELETE whose target row is gone by then affects zero rows without an  *)
(* error.  A handler is split into one action per statement (or group of   *)
(* statements) between which another request can observably interleave.    *)
(*                                                                         *)
(* Time is counted in minutes from an arbitrary UTC hour boundary.         *)
(***************************************************************************)
EXTENDS Integers, FiniteSets, Sequences, TLC

\* ------------------------------------------------------------------ bounds

NumBlocks == 2          \* atomic grid instants 0, 30, ... that requests may name
NumProcs == 2           \* requests that may be in flight at the same time
MaxBookingId == 2       \* values the bookings.id sequence may issue
SeqBookingIds == 1      \* of these, the values issued when requests run one at a time

\* --------------------------------------------------------- program constants

GRID_MINUTES == 30

NoUser == 0             \* requireUser() returned null
NULL == 0               \* SQL NULL in a nullable column
MISSING == -1           \* a body field that is absent, empty or not a number
INVALID_ISO == -2       \* a startUtc string DateTime.fromISO cannot parse
NoRowId == <<>>         \* a query string without the id parameter
NoEventId == <<>>       \* a query string without the eventId parameter

Teachers == {1, 2}
Students == {3}
Users == Teachers \cup Students
Procs == 1..NumProcs
SeqProcs == {1}         \* the slot used when requests are served one at a time

BlockStarts == {GRID_MINUTES * i : i \in 0..(NumBlocks - 1)}
OffGrid == GRID_MINUTES \div 2

\* lesson_offers: teacher 1 sells 30 and 60 minutes; teacher 2 has switched its
\* only offer (30 minutes) off and has none for 60 minutes.
lessonOffers ==
    { [teacherId |-> 1, durationMinutes |-> 30, priceCents |-> 3000, isActive |-> 1],
      [teacherId |-> 1, durationMinutes |-> 60, priceCents |-> 6000, isActive |-> 1],
      [teacherId |-> 2, durationMinutes |-> 30, priceCents |-> 2500, isActive |-> 0] }

VARIABLES
    teacherAvailability,  \* committed rows of teacher_availability
    bookings,             \* committed rows of bookings
    bookingSeq,           \* last value issued by the bookings.id sequence
    stripeDisabled,       \* process.env.STRIPE_DISABLED === "1"
    pc,                   \* per request slot: where its handler stands
    req,                  \* per request slot: the request being served
    tx,                   \* per request slot: the open transaction's private state
    last,                 \* the response sent most recently, and to which handler
    availabilityRules,    \* committed rows of availability_rules
    availabilityOverrides,\* committed rows of availability_overrides
    call                  \* the library call under evaluation: function, arguments, result

vars == <<teacherAvailability, bookings, bookingSeq, stripeDisabled, pc, req, tx, last,
          availabilityRules, availabilityOverrides, call>>

\* ------------------------------------------------------------------ records

NoReq == [op |-> "none", user |-> NoUser, teacherId |-> MISSING, startUtc |-> MISSING,
          endUtc |-> MISSING, durationMinutes |-> MISSING, bookingId |-> MISSING,
          sig |-> "none", type |-> "none", paymentIntent |-> NULL, rowId |-> NoRowId,
          eventId |-> NoEventId, mode |-> "merged", weekday |-> MISSING,
          startMin |-> MISSING, endMin |-> MISSING]

NoResp == [op |-> "none", status |-> 0, error |-> "", restored |-> 0]

EmptyTx == [rows |-> {}, newBooking |-> {}, b |-> {}, upd |-> {}, toInsert |-> {},
            slots |-> <<>>, blocks |-> <<>>,
            merged |-> [startUtc |-> MISSING, endUtc |-> MISSING]]

Ok(op, n) == [op |-> op, status |-> 200, error |-> "", restored |-> n]
Err(op, code, msg) == [op |-> op, status |-> code, error |-> msg, restored |-> 0]

\* ------------------------------------------------------------ db visibility

InFlight(p) == pc[p] # "idle"
AllIdle == \A p \in Procs : pc[p] = "idle"

\* Booking rows an open transaction has updated and not yet committed: an
\* UPDATE by another transaction that targets one of them waits.
BookingLocked(id) == \E q \in Procs : InFlight(q) /\ id \in tx[q].upd

\* serial primary key of teacher_availability.  Row ids are only ever compared
\* for identity, so an id is modelled as an opaque token: the teacher, the
\* start instant, and the smallest incarnation number that no stored row and
\* no open transaction still refers to.
UsedRowIds ==
    {r.id : r \in teacherAvailability}
        \cup UNION {{r.id : r \in tx[q].rows} : q \in Procs}

FreshRowId(teacherId, startUtc) ==
    <<teacherId, startUtc,
      CHOOSE n \in 1..(Cardinality(UsedRowIds) + 1) :
          /\ <<teacherId, startUtc, n>> \notin UsedRowIds
          /\ \A m \in 1..(n - 1) : <<teacherId, startUtc, m>> \in UsedRowIds>>

\* tx.insert(teacherAvailability).values(rows): one stored row per value
InsertedRows(teacherId, slots) ==
    {[id |-> FreshRowId(teacherId, s.startUtc), teacherId |-> teacherId,
      startUtc |-> s.startUtc, endUtc |-> s.endUtc] : s \in slots}

\* The handler in slot p sends its response and the slot becomes free.
Finish(p, response) ==
    /\ last' = response
    /\ pc' = [pc EXCEPT ![p] = "idle"]
    /\ req' = [req EXCEPT ![p] = NoReq]
    /\ tx' = [tx EXCEPT ![p] = EmptyTx]

\* A request answered in its first step.
Answer(response) ==
    /\ last' = response
    /\ UNCHANGED <<pc, req, tx>>

\* A request that goes on after its first step.
Begin(p, r, label, txState) ==
    /\ pc' = [pc EXCEPT ![p] = label]
    /\ req' = [req EXCEPT ![p] = r]
    /\ tx' = [tx EXCEPT ![p] = txState]
    /\ last' = NoResp

\* ------------------------------------------------- checkout (part_000 35-175)

SupportedDurationsMut(d) == d \in {30, 45, 60}
SupportedDurations(d) == d \in {30, 60}

\* const requiredStarts = [start] or [start, start + GRID_MINUTES]
RequiredStartsMut(start, durationMinutes) == {start}
RequiredStarts(start, durationMinutes) ==
    IF durationMinutes = 60 THEN {start, start + GRID_MINUTES} ELSE {start}

\* select ... from lessonOffers where teacherId, durationMinutes, isActive = 1
ActiveOfferMut(teacherId, durationMinutes) ==
    {o \in lessonOffers : o.teacherId = teacherId /\ o.durationMinutes = durationMinutes}
ActiveOffer(teacherId, durationMinutes) ==
    {o \in lessonOffers : o.teacherId = teacherId
                            /\ o.durationMinutes = durationMinutes /\ o.isActive = 1}

\* select ... from teacherAvailability where teacherId and startUtc in starts
MatchingRows(teacherId, starts) ==
    {r \in teacherAvailability : r.teacherId = teacherId /\ r.startUtc \in starts}

\* rows.length !== requiredStarts.length
SlotAvailableMut(rows, starts) == Cardinality(rows) >= 1
SlotAvailable(rows, starts) == Cardinality(rows) = Cardinality(starts)

AllAtomic(rows) == \A r \in rows : r.endUtc - r.startUtc = GRID_MINUTES

NewBooking(id, teacherId, studentId, start, durationMinutes, offer) ==
    [id |-> id, teacherId |-> teacherId, studentId |-> studentId,
     startUtc |-> start, endUtc |-> start + durationMinutes,
     durationMinutes |-> durationMinutes, priceCents |-> offer.priceCents,
     status |-> "pending", stripeCheckoutSessionId |-> NULL,
     stripePaymentIntentId |-> NULL]

\* The response of the part of the handler that runs before any write:
\* authentication, body validation, the offer lookup and the availability read.
CheckoutPrecheck(r) ==
    IF r.user = NoUser THEN Err("checkout", 401, "Unauthorized")
    ELSE IF r.teacherId = MISSING \/ r.startUtc = MISSING \/ r.durationMinutes = MISSING
        THEN Err("checkout", 400, "Missing/invalid fields")
    ELSE IF ~SupportedDurations(r.durationMinutes)
        THEN Err("checkout", 400, "Only 30/60 supported right now (45 requires 15-min grid).")
    ELSE IF r.startUtc = INVALID_ISO THEN Err("checkout", 400, "Invalid startUtc")
    ELSE IF ActiveOffer(r.teacherId, r.durationMinutes) = {}
        THEN Err("checkout", 400, "No price for this duration")
    ELSE LET requiredStarts == RequiredStarts(r.startUtc, r.durationMinutes)
             rows == MatchingRows(r.teacherId, requiredStarts)
         IN  IF ~SlotAvailable(rows, requiredStarts)
                 THEN Err("checkout", 400, "Slot not available")
             ELSE IF ~AllAtomic(rows)
                 THEN Err("checkout", 400, "Availability row is not 30-min atomic")
             ELSE NoResp

\* POST /api/bookings/checkout up to and including the insert of the pending
\* booking (visible to nobody else until commit).
CheckoutRequest(p, r) ==
    /\ pc[p] = "idle"
    /\ r.op = "checkout"
    /\ LET failure == CheckoutPrecheck(r) IN
       IF failure # NoResp
       THEN /\ Answer(failure)
            /\ UNCHANGED bookingSeq
       ELSE /\ bookingSeq < MaxBookingId
            /\ LET offer == CHOOSE o \in ActiveOffer(r.teacherId, r.durationMinutes) : TRUE
                   rows == MatchingRows(r.teacherId, RequiredStarts(r.startUtc, r.durationMinutes))
               IN  Begin(p, r, "co_delete", [EmptyTx EXCEPT !.rows = rows,
                         !.newBooking = {NewBooking(bookingSeq + 1, r.teacherId, r.user,
                                                    r.startUtc, r.durationMinutes, offer)}])
            /\ bookingSeq' = bookingSeq + 1
    /\ UNCHANGED <<availabilityRules, availabilityOverrides, call, teacherAvailability,
                    bookings, stripeDisabled>>

\* db.transaction: the callback's writes are committed when it returns and
\* discarded when it throws.
TxOutcomeMut(threw) == "commit"
TxOutcome(threw) == IF threw THEN "rollback" ELSE "commit"

\* The booking as the transaction leaves it: paid in the STRIPE_DISABLED
\* branch, otherwise pending with the id of the Stripe checkout session.
PaidBookingMut(nb, disabled) == nb
PaidBooking(nb, disabled) ==
    IF disabled THEN [nb EXCEPT !.status = "paid"]
    ELSE [nb EXCEPT !.stripeCheckoutSessionId = nb.id]

\* tx.delete(teacherAvailability).where(inArray(id, idsToDelete)): of the rows
\* fetched earlier, those still stored are deleted; a fetched row that another
\* transaction has deleted and committed meanwhile is skipped without an error.
RowsAfterDeleteMut(ids) == teacherAvailability
RowsAfterDelete(ids) == {r \in teacherAvailability : r.id \notin ids}

\* The rest of the transaction: the delete of the fetched rows, then either
\* the STRIPE_DISABLED branch or the Stripe call (which may throw) and the
\* update that stores the session id, then commit or rollback.  The delete
\* waits while another open transaction holds a lock on one of the rows; no
\* statement of another request can tell the instant of the delete from the
\* instant of the commit, so both are one step.
CheckoutCommit(p, stripeThrows) ==
    /\ pc[p] = "co_delete"
    /\ stripeDisabled => ~stripeThrows
    /\ LET nb == CHOOSE b \in tx[p].newBooking : TRUE
       IN  IF TxOutcome(stripeThrows) = "commit"
           THEN /\ bookings' = bookings \cup {PaidBooking(nb, stripeDisabled)}
                /\ teacherAvailability' = RowsAfterDelete({r.id : r \in tx[p].rows})
           ELSE UNCHANGED <<teacherAvailability, bookings>>
    /\ Finish(p, IF stripeThrows THEN Err("checkout", 400, "Stripe request failed")
                 ELSE Ok("checkout", 0))
    /\ UNCHANGED <<availabilityRules, availabilityOverrides, call, bookingSeq, stripeDisabled>>

\* --------------------------------------------------- cancel (part_002 1-123)

RECURSIVE StartsFrom(_, _)
StartsFrom(start, blocks) ==
    IF blocks <= 0 THEN {}
    ELSE {start + GRID_MINUTES * (blocks - 1)} \cup StartsFrom(start, blocks - 1)

BuildAtomicStartsMut(startUtc, endUtc) == {startUtc}
BuildAtomicStarts(startUtc, endUtc) ==
    LET diff == endUtc - startUtc
    IN  IF diff <= 0 THEN {}
        ELSE IF diff % GRID_MINUTES # 0 THEN {}
        ELSE StartsFrom(startUtc, diff \div GRID_MINUTES)

\* select ... from bookings where id = bookingId and studentId = user.id
OwnBookingMut(bookingId, user) == {b \in bookings : b.id = bookingId}
OwnBooking(bookingId, user) ==
    {b \in bookings : b.id = bookingId /\ b.studentId = user}

CancelPrecheckMut(r) ==
    IF r.user = NoUser THEN Err("cancel", 401, "Unauthorized")
    ELSE IF r.bookingId = MISSING THEN Err("cancel", 400, "Missing/invalid bookingId")
    ELSE IF OwnBooking(r.bookingId, r.user) = {} THEN Err("cancel", 404, "Booking not found")
    ELSE NoResp
CancelPrecheck(r) ==
    IF r.user = NoUser THEN Err("cancel", 401, "Unauthorized")
    ELSE IF r.bookingId = MISSING THEN Err("cancel", 400, "Missing/invalid bookingId")
    ELSE IF OwnBooking(r.bookingId, r.user) = {} THEN Err("cancel", 404, "Booking not found")
    ELSE IF \E b \in OwnBooking(r.bookingId, r.user) : b.status = "paid"
        THEN Err("cancel", 400, "Cannot cancel booking with status paid")
    ELSE IF \E b \in OwnBooking(r.bookingId, r.user) : b.status = "refunded"
        THEN Err("cancel", 400, "Cannot cancel booking with status refunded")
    ELSE NoResp

\* POST /api/bookings/cancel up to the branch on the booking's status.
CancelRequest(p, r) ==
    /\ pc[p] = "idle"
    /\ r.op = "cancel"
    /\ IF CancelPrecheck(r) # NoResp
       THEN Answer(CancelPrecheck(r))
       ELSE LET b == CHOOSE x \in OwnBooking(r.bookingId, r.user) : TRUE
            IN  Begin(p, r, IF b.status = "canceled" THEN "ca_read" ELSE "ca_update",
                      [EmptyTx EXCEPT !.b = {b}])
    /\ UNCHANGED <<availabilityRules, availabilityOverrides, call, teacherAvailability,
                    bookings, bookingSeq, stripeDisabled>>

\* update bookings set status = 'canceled' where id = b.id: waits for a lock
\* on the row, then locks it until the transaction ends.
CancelUpdate(p) ==
    /\ pc[p] = "ca_update"
    /\ \A b \in tx[p].b : ~BookingLocked(b.id)
    /\ tx' = [tx EXCEPT ![p].upd = {b.id : b \in tx[p].b}]
    /\ pc' = [pc EXCEPT ![p] = "ca_read"]
    /\ UNCHANGED <<availabilityRules, availabilityOverrides, call, teacherAvailability,
                    bookings, bookingSeq, stripeDisabled, req, last>>

\* bookings as the cancelling transaction commits them
Canceled(ids) ==
    {IF b.id \in ids THEN [b EXCEPT !.status = "canceled"] ELSE b : b \in bookings}

\* rowsToInsert: the required starts with no stored row, as 30-minute rows
RowsToRestoreMut(teacherId, requiredStarts) ==
    {[startUtc |-> s, endUtc |-> s + GRID_MINUTES] : s \in requiredStarts}
RowsToRestore(teacherId, requiredStarts) ==
    {[startUtc |-> s, endUtc |-> s + GRID_MINUTES] :
        s \in requiredStarts \ {r.startUtc : r \in MatchingRows(teacherId, requiredStarts)}}

\* buildAtomicStarts and the select of the rows that already exist; with
\* nothing to restore the transaction commits here.
CancelRead(p) ==
    /\ pc[p] = "ca_read"
    /\ LET b == CHOOSE x \in tx[p].b : TRUE
           requiredStarts == BuildAtomicStarts(b.startUtc, b.endUtc)
       IN  IF requiredStarts = {}
           THEN /\ bookings' = Canceled(tx[p].upd)
                /\ Finish(p, Ok("cancel", 0))
           ELSE /\ tx' = [tx EXCEPT ![p].toInsert = RowsToRestore(b.teacherId, requiredStarts)]
                /\ pc' = [pc EXCEPT ![p] = "ca_insert"]
                /\ UNCHANGED <<bookings, req, last>>
    /\ UNCHANGED <<availabilityRules, availabilityOverrides, call, teacherAvailability,
                    bookingSeq, stripeDisabled>>

\* The insert of the missing rows (if any) and the commit.
CancelCommit(p) ==
    /\ pc[p] = "ca_insert"
    /\ LET b == CHOOSE x \in tx[p].b : TRUE
       IN  teacherAvailability' =
               teacherAvailability \cup InsertedRows(b.teacherId, tx[p].toInsert)
    /\ bookings' = Canceled(tx[p].upd)
    /\ Finish(p, Ok("cancel", Cardinality(tx[p].toInsert)))
    /\ UNCHANGED <<availabilityRules, availabilityOverrides, call, bookingSeq, stripeDisabled>>

\* --------------------------------- plain booking create (part_001 1-157)

\* availabilityRows.some((a) => start >= aStart && end <= aEnd)
InsideAvailability(teacherId, start, end) ==
    \E a \in teacherAvailability :
        a.teacherId = teacherId /\ start >= a.startUtc /\ end <= a.endUtc

\* the teacher's pending and paid bookings that overlap the slot
OverlappingBookings(teacherId, start, end) ==
    {b \in bookings : /\ b.teacherId = teacherId /\ b.status \in {"pending", "paid"}
                      /\ start < b.endUtc /\ end > b.startUtc}

CreatePrecheck(r) ==
    IF r.user = NoUser THEN Err("create", 401, "Unauthorized")
    ELSE IF r.teacherId = MISSING \/ r.startUtc = MISSING \/ r.endUtc = MISSING
        THEN Err("create", 400, "Invalid payload")
    ELSE IF r.startUtc = INVALID_ISO \/ r.endUtc = INVALID_ISO
        THEN Err("create", 400, "Invalid ISO datetime (UTC expected)")
    ELSE IF r.endUtc <= r.startUtc THEN Err("create", 400, "endUtc must be after startUtc")
    ELSE IF (r.endUtc - r.startUtc) \notin {30, 45, 60}
        THEN Err("create", 400, "Invalid duration. Allowed: 30/45/60")
    ELSE IF ~InsideAvailability(r.teacherId, r.startUtc, r.endUtc)
        THEN Err("create", 409, "Slot is not available")
    ELSE IF OverlappingBookings(r.teacherId, r.startUtc, r.endUtc) # {}
        THEN Err("create", 409, "Slot already booked")
    ELSE IF ActiveOffer(r.teacherId, r.endUtc - r.startUtc) = {}
        THEN Err("create", 409, "No active offer for this duration")
    ELSE NoResp

\* POST /api/bookings: the checks and the insert of the pending booking are
\* statements sent one by one, outside any transaction; no availability row
\* is touched.  With requests served one at a time they are one step.
CreateRequest(r) ==
    /\ r.op = "create"
    /\ IF CreatePrecheck(r) # NoResp
       THEN /\ Answer(CreatePrecheck(r))
            /\ UNCHANGED <<bookings, bookingSeq>>
       ELSE /\ bookingSeq < MaxBookingId
            /\ LET offer == CHOOSE o \in ActiveOffer(r.teacherId, r.endUtc - r.startUtc) : TRUE
               IN  bookings' = bookings \cup
                       {NewBooking(bookingSeq + 1, r.teacherId, r.user, r.startUtc,
                                   r.endUtc - r.startUtc, offer)}
            /\ bookingSeq' = bookingSeq + 1
            /\ Answer(Ok("create", 0))
    /\ UNCHANGED <<availabilityRules, availabilityOverrides, call, teacherAvailability,
                    stripeDisabled>>

\* --------------------------- Stripe webhook (stripe/webhook/route.ts 246-290)

\* update bookings set status = 'paid', session id, payment intent where id
MarkedPaidAll(bookingId, sessionId, paymentIntent) ==
    {[b EXCEPT !.status = "paid", !.stripeCheckoutSessionId = sessionId,
               !.stripePaymentIntentId = paymentIntent] : b \in bookings}
MarkedPaidNoRef(bookingId, sessionId, paymentIntent) ==
    {IF b.id = bookingId THEN [b EXCEPT !.status = "paid"] ELSE b : b \in bookings}
MarkedPaidOnce(bookingId, sessionId, paymentIntent) ==
    {IF b.id = bookingId
     THEN [b EXCEPT !.status = "paid", !.stripeCheckoutSessionId = sessionId,
                    !.stripePaymentIntentId =
                        IF b.stripePaymentIntentId = NULL THEN paymentIntent ELSE NULL]
     ELSE b : b \in bookings}
MarkedPaid(bookingId, sessionId, paymentIntent) ==
    {IF b.id = bookingId
     THEN [b EXCEPT !.status = "paid", !.stripeCheckoutSessionId = sessionId,
                    !.stripePaymentIntentId = paymentIntent]
     ELSE b : b \in bookings}

\* POST /api/stripe/webhook: one statement outside any transaction block.  The
\* event of a booking carries the id of the checkout session created for it.
Webhook(r) ==
    /\ r.op = "webhook"
    /\ IF r.sig = "missing" THEN
            /\ Answer(Err("webhook", 400, "Missing stripe-signature"))
            /\ UNCHANGED bookings
       ELSE IF r.sig = "invalid" THEN
            /\ Answer(Err("webhook", 400, "Webhook Error"))
            /\ UNCHANGED bookings
       ELSE IF r.type # "checkout.session.completed" THEN
            /\ Answer(Ok("webhook", 0))
            /\ UNCHANGED bookings
       ELSE IF r.bookingId = MISSING THEN
            /\ Answer([Ok("webhook", 0) EXCEPT !.error = "No bookingId in metadata"])
            /\ UNCHANGED bookings
       ELSE /\ ~BookingLocked(r.bookingId)
            /\ bookings' = MarkedPaid(r.bookingId, r.bookingId, r.paymentIntent)
            /\ Answer(Ok("webhook", 0))
    /\ UNCHANGED <<availabilityRules, availabilityOverrides, call, teacherAvailability,
                    bookingSeq, stripeDisabled>>

\* ------------------------- manual availability insert (availability/route.ts)

\* roundDownToGrid: minute - (minute % GRID_MINUTES)
RoundDownToGridMut(t) == t
RoundDownToGrid(t) == t - (t % GRID_MINUTES)

RECURSIVE GridSlotsFromMut(_, _)
GridSlotsFromMut(t, end) ==
    IF t + GRID_MINUTES < end
    THEN <<[startUtc |-> t, endUtc |-> t + GRID_MINUTES]>>
            \o GridSlotsFromMut(t + GRID_MINUTES, end)
    ELSE <<>>

RECURSIVE GridSlotsFrom(_, _)
GridSlotsFrom(t, end) ==
    IF t + GRID_MINUTES <= end
    THEN <<[startUtc |-> t, endUtc |-> t + GRID_MINUTES]>> \o GridSlotsFrom(t + GRID_MINUTES, end)
    ELSE <<>>

SplitIntoGridSlots(startUtc, endUtc) ==
    IF startUtc = INVALID_ISO \/ endUtc = INVALID_ISO THEN <<>>
    ELSE IF endUtc <= startUtc THEN <<>>
    ELSE GridSlotsFrom(RoundDownToGrid(startUtc), endUtc)

InsertPrecheck(r) ==
    IF r.user = NoUser THEN Err("insert", 401, "Unauthorized")
    ELSE IF r.teacherId = MISSING THEN Err("insert", 400, "Invalid teacherId")
    ELSE IF r.user # r.teacherId THEN Err("insert", 403, "Forbidden")
    ELSE IF r.startUtc = MISSING \/ r.endUtc = MISSING
        THEN Err("insert", 400, "Missing startUtc/endUtc")
    ELSE IF SplitIntoGridSlots(r.startUtc, r.endUtc) = <<>>
        THEN Err("insert", 400, "Empty selection")
    ELSE NoResp

InsertRequest(p, r) ==
    /\ pc[p] = "idle"
    /\ r.op = "insert"
    /\ IF InsertPrecheck(r) # NoResp
       THEN Answer(InsertPrecheck(r))
       ELSE Begin(p, r, "mi_loop",
                  [EmptyTx EXCEPT !.slots = SplitIntoGridSlots(r.startUtc, r.endUtc)])
    /\ UNCHANGED <<availabilityRules, availabilityOverrides, call, teacherAvailability,
                    bookings, bookingSeq, stripeDisabled>>

InsertLoopMut(p) ==
    /\ pc[p] = "mi_loop"
    /\ tx[p].slots # <<>>
    /\ tx' = [tx EXCEPT ![p].slots = Tail(tx[p].slots),
                        ![p].toInsert = @ \cup {Head(tx[p].slots)}]
    /\ UNCHANGED <<availabilityRules, availabilityOverrides, call, teacherAvailability,
                    bookings, bookingSeq, stripeDisabled, pc, req, last>>

\* One turn of the loop: select a row with this teacher, start and end; insert
\* the slot into the transaction when there is none.
InsertLoop(p) ==
    /\ pc[p] = "mi_loop"
    /\ tx[p].slots # <<>>
    /\ LET s == Head(tx[p].slots)
           existing == {r \in teacherAvailability : r.teacherId = req[p].teacherId
                            /\ r.startUtc = s.startUtc /\ r.endUtc = s.endUtc}
           own == {x \in tx[p].toInsert : x = s}
       IN  tx' = [tx EXCEPT ![p].slots = Tail(tx[p].slots),
                            ![p].toInsert = IF existing = {} /\ own = {} THEN @ \cup {s} ELSE @]
    /\ UNCHANGED <<availabilityRules, availabilityOverrides, call, teacherAvailability,
                    bookings, bookingSeq, stripeDisabled, pc, req, last>>

InsertCommit(p) ==
    /\ pc[p] = "mi_loop"
    /\ tx[p].slots = <<>>
    /\ teacherAvailability' =
          teacherAvailability \cup InsertedRows(req[p].teacherId, tx[p].toInsert)
    /\ Finish(p, Ok("insert", 0))
    /\ UNCHANGED <<availabilityRules, availabilityOverrides, call, bookings, bookingSeq,
                    stripeDisabled>>

\* ---------- merged calendar events (availability-rules/route.ts 232-391)

\* The characters of an event id that its parser looks for; every other run
\* of characters is a number.
COLON == -1
PIPE == -2
ZED == -3

NoEvent == [ok |-> FALSE, teacherId |-> MISSING, from |-> MISSING, to |-> MISSING]

\* new Date(ms).toISOString(): "<date>T<hh>:<mm>:<ss>.000Z", written here as
\* the hour count (date and hour of day), ":", minute, ":", second, "Z".
toIso(ms) == <<ms \div 60, COLON, ms % 60, COLON, 0, ZED>>

\* DateTime.fromISO(v, {setZone: true}).toUTC(), null when v does not parse
parseIsoUtc(v) ==
    IF /\ Len(v) = 6
       /\ v[2] = COLON /\ v[4] = COLON /\ v[6] = ZED
       /\ v[1] >= 0 /\ v[3] \in 0..59 /\ v[5] = 0
    THEN v[1] * 60 + v[3]
    ELSE INVALID_ISO

\* raw.split(sep)
RECURSIVE Split(_, _)
Split(raw, sep) ==
    IF \A i \in 1..Len(raw) : raw[i] # sep THEN <<raw>>
    ELSE LET i == CHOOSE k \in 1..Len(raw) :
                      raw[k] = sep /\ \A m \in 1..(k - 1) : raw[m] # sep
         IN  <<SubSeq(raw, 1, i - 1)>> \o Split(SubSeq(raw, i + 1, Len(raw)), sep)

\* Number(tid): a number, 0 for the empty string, NaN (MISSING) otherwise
ToNumber(tid) ==
    IF tid = <<>> THEN 0
    ELSE IF Len(tid) = 1 /\ tid[1] >= 0 THEN tid[1]
    ELSE MISSING

ParsedEvent(teacherId, from, to) ==
    IF teacherId = MISSING \/ from = INVALID_ISO \/ to = INVALID_ISO THEN NoEvent
    ELSE IF to <= from THEN NoEvent
    ELSE [ok |-> TRUE, teacherId |-> teacherId, from |-> from, to |-> to]

\* The ends of the second group of /^(\d+):(.+?Z):(.+?Z)$/: a "Z" followed by
\* ":" with something before it and a third group after it.
LegacyCuts(raw) ==
    {i \in 4..(Len(raw) - 3) : raw[i] = ZED /\ raw[i + 1] = COLON}

\* raw.split(":"), the parse the source warns against
parseMergedEventIdMut(raw) ==
    LET parts == Split(raw, COLON)
    IN  IF Len(parts) # 3 THEN NoEvent
        ELSE ParsedEvent(ToNumber(parts[1]), parseIsoUtc(parts[2]), parseIsoUtc(parts[3]))

parseMergedEventId(raw) ==
    IF \E i \in 1..Len(raw) : raw[i] = PIPE
    THEN LET parts == Split(raw, PIPE)
         IN  IF Len(parts) < 3 THEN NoEvent
             ELSE ParsedEvent(ToNumber(parts[1]), parseIsoUtc(parts[2]),
                              parseIsoUtc(parts[3]))
    ELSE IF \/ Len(raw) < 6
            \/ raw[1] < 0 \/ raw[2] # COLON \/ raw[Len(raw)] # ZED
            \/ LegacyCuts(raw) = {}
         THEN NoEvent
    ELSE LET i == CHOOSE k \in LegacyCuts(raw) : \A m \in LegacyCuts(raw) : k <= m
         IN  ParsedEvent(raw[1], parseIsoUtc(SubSeq(raw, 3, i)),
                         parseIsoUtc(SubSeq(raw, i + 2, Len(raw))))

\* `${teacherId}:${start}:${end}`
EventId(teacherId, start, end) == <<teacherId, COLON>> \o start \o <<COLON>> \o end

\* [...rows].sort((a, b) => a.startMs - b.startMs): stable, by start only
RECURSIVE SortByStart(_)
SortByStart(rows) ==
    IF rows = <<>> THEN <<>>
    ELSE LET i == CHOOSE k \in 1..Len(rows) :
                      /\ \A m \in 1..Len(rows) : rows[k].startMs <= rows[m].startMs
                      /\ \A m \in 1..(k - 1) : rows[m].startMs # rows[k].startMs
         IN  <<rows[i]>> \o SortByStart(SubSeq(rows, 1, i - 1)
                                          \o SubSeq(rows, i + 1, Len(rows)))

Max(a, b) == IF a >= b THEN a ELSE b
Min(a, b) == IF a <= b THEN a ELSE b

RECURSIVE MergeLoopMut(_, _)
MergeLoopMut(out, rest) ==
    IF rest = <<>> THEN out
    ELSE LET prev == out[Len(out)]
             cur == Head(rest)
         IN  IF cur.startMs < prev.endMs
             THEN MergeLoopMut([out EXCEPT ![Len(out)].endMs = Max(prev.endMs, cur.endMs)],
                               Tail(rest))
             ELSE MergeLoopMut(Append(out, cur), Tail(rest))

\* the loop of mergeIntervals: out is the result so far, rest what is left of
\* the sorted input
RECURSIVE MergeLoop(_, _)
MergeLoop(out, rest) ==
    IF rest = <<>> THEN out
    ELSE LET prev == out[Len(out)]
             cur == Head(rest)
         IN  IF cur.startMs <= prev.endMs
             THEN MergeLoop([out EXCEPT ![Len(out)].endMs = Max(prev.endMs, cur.endMs)],
                            Tail(rest))
             ELSE MergeLoop(Append(out, cur), Tail(rest))

\* mergeIntervals of the availability route (246-258)
MergeRows(rows) ==
    IF rows = <<>> THEN <<>>
    ELSE LET sorted == SortByStart(rows)
         IN  MergeLoop(<<Head(sorted)>>, Tail(sorted))

\* select ... where teacherId and startUtc < to and endUtc > from
\* order by startUtc (rows that start together come in any order)
SelectedRows(teacherId, from, to) ==
    {r \in teacherAvailability :
        r.teacherId = teacherId /\ r.startUtc < to /\ r.endUtc > from}

RECURSIVE OrderByStart(_)
OrderByStart(rows) ==
    IF rows = {} THEN <<>>
    ELSE LET r == CHOOSE x \in rows : \A y \in rows : x.startUtc <= y.startUtc
         IN  <<[startMs |-> r.startUtc, endMs |-> r.endUtc]>> \o OrderByStart(rows \ {r})

MergedEvents(teacherId, from, to) ==
    LET intervalsRaw == SelectSeq(OrderByStart(SelectedRows(teacherId, from, to)),
                                  LAMBDA i : i.endMs > i.startMs)
        merged == MergeRows(intervalsRaw)
    IN  [i \in 1..Len(merged) |->
            [id |-> EventId(teacherId, toIso(merged[i].startMs), toIso(merged[i].endMs)),
             start |-> toIso(merged[i].startMs), end |-> toIso(merged[i].endMs)]]

RangePrecheck(op, r) ==
    IF r.user = NoUser THEN Err(op, 401, "Unauthorized")
    ELSE IF r.teacherId = MISSING THEN Err(op, 400, "Invalid teacherId")
    ELSE IF r.user # r.teacherId THEN Err(op, 403, "Forbidden")
    ELSE IF r.startUtc \in {MISSING, INVALID_ISO} \/ r.endUtc \in {MISSING, INVALID_ISO}
        THEN Err(op, 400, "Missing/invalid from/to")
    ELSE IF r.endUtc <= r.startUtc THEN Err(op, 400, "Invalid range")
    ELSE NoResp

Listed(events, rows) ==
    [op |-> "get", status |-> 200, error |-> "", restored |-> 0,
     events |-> events, rows |-> rows]

\* GET /api/teachers/[teacherId]/availability?from=&to=&mode=
GetRequest(r) ==
    /\ r.op = "get"
    /\ IF RangePrecheck("get", r) # NoResp
       THEN Answer(RangePrecheck("get", r))
       ELSE IF r.mode = "atomic"
       THEN Answer(Listed(<<>>, SelectedRows(r.teacherId, r.startUtc, r.endUtc)))
       ELSE Answer(Listed(MergedEvents(r.teacherId, r.startUtc, r.endUtc), {}))
    /\ UNCHANGED <<availabilityRules, availabilityOverrides, call, teacherAvailability,
                    bookings, bookingSeq, stripeDisabled>>

\* ------------- availability delete (availability-rules/route.ts 439-509)

\* delete from teacherAvailability where teacherId and id = id
RowsAfterDeleteById(teacherId, id) ==
    {r \in teacherAvailability : ~(r.teacherId = teacherId /\ r.id = id)}

\* delete from teacherAvailability where teacherId and startUtc < to and
\* endUtc > from
RowsAfterDeleteRangeMut(teacherId, from, to) ==
    {r \in teacherAvailability :
        ~(r.teacherId = teacherId /\ r.startUtc <= to /\ r.endUtc >= from)}

RowsAfterDeleteRangeUnscoped(teacherId, from, to) ==
    {r \in teacherAvailability : ~(r.startUtc < to /\ r.endUtc > from)}

RowsAfterDeleteRange(teacherId, from, to) ==
    {r \in teacherAvailability :
        ~(r.teacherId = teacherId /\ r.startUtc < to /\ r.endUtc > from)}

\* { ok: true, deleted, mode }
Deleted(n, mode) ==
    [op |-> "delete", status |-> 200, error |-> "", restored |-> 0,
     deleted |-> n, mode |-> mode]

DeletePrecheck(r) ==
    IF r.user = NoUser THEN Err("delete", 401, "Unauthorized")
    ELSE IF r.teacherId = MISSING THEN Err("delete", 400, "Invalid teacherId")
    ELSE IF r.user # r.teacherId THEN Err("delete", 403, "Forbidden")
    ELSE IF r.rowId # NoRowId THEN NoResp
    ELSE IF r.eventId # NoEventId
        THEN IF ~parseMergedEventId(r.eventId).ok
                THEN Err("delete", 400, "Invalid eventId")
             ELSE IF parseMergedEventId(r.eventId).teacherId # r.teacherId
                THEN Err("delete", 400, "eventId teacherId mismatch")
             ELSE NoResp
    ELSE IF r.startUtc \in {MISSING, INVALID_ISO} \/ r.endUtc \in {MISSING, INVALID_ISO}
        THEN Err("delete", 400, "Missing/invalid from/to")
    ELSE IF r.endUtc <= r.startUtc THEN Err("delete", 400, "Invalid range")
    ELSE NoResp

\* the rows left by an accepted delete
RowsAfterDeleteRequest(r) ==
    IF r.rowId # NoRowId THEN RowsAfterDeleteById(r.teacherId, r.rowId)
    ELSE IF r.eventId # NoEventId
        THEN RowsAfterDeleteRange(r.teacherId, parseMergedEventId(r.eventId).from,
                                  parseMergedEventId(r.eventId).to)
    ELSE RowsAfterDeleteRange(r.teacherId, r.startUtc, r.endUtc)

\* DELETE /api/teachers/[teacherId]/availability: one statement outside any
\* transaction block, addressed by row id (?id=), by merged event (?eventId=)
\* or by range (?from=&to=).  The by-id branch answers deleted: 1 whatever
\* the statement removed; the other two count the rows returned by it.
DeleteRequest(r) ==
    /\ r.op = "delete"
    /\ IF DeletePrecheck(r) # NoResp
       THEN /\ Answer(DeletePrecheck(r))
            /\ UNCHANGED teacherAvailability
       ELSE /\ teacherAvailability' = RowsAfterDeleteRequest(r)
            /\ Answer(IF r.rowId # NoRowId THEN Deleted(1, "atomic")
                      ELSE Deleted(Cardinality(teacherAvailability \ teacherAvailability'),
                                   IF r.eventId # NoEventId THEN "eventId" ELSE "range"))
    /\ UNCHANGED <<availabilityRules, availabilityOverrides, call, bookings, bookingSeq,
                    stripeDisabled>>

\* ------------------ rule creation (availability-rules/route.ts 1-107)

DAY_MINUTES == 1440

\* The days the expansion walks, counted from today, and the rows
\* availability_rules may hold.
HorizonDays == 7
MaxRules == 2

\* Days are counted from a Sunday (weekday 0) in the rule's time zone, which
\* is taken to be UTC.
RECURSIVE RuleBlocks(_, _)
RuleBlocks(r, day) ==
    IF day > HorizonDays THEN <<>>
    ELSE (IF day % 7 = r.weekday
          THEN <<[startUtc |-> day * DAY_MINUTES + r.startMin,
                  endUtc |-> day * DAY_MINUTES + r.endMin]>>
          ELSE <<>>) \o RuleBlocks(r, day + 1)

RulePrecheck(r) ==
    IF r.teacherId = MISSING THEN Err("rule", 400, "Invalid teacherId")
    ELSE IF \/ r.weekday \notin 0..6
            \/ r.startMin \notin 0..DAY_MINUTES
            \/ r.endMin \notin 0..DAY_MINUTES
        THEN Err("rule", 500, "ZodError")
    ELSE IF r.endMin <= r.startMin THEN Err("rule", 400, "endMin must be > startMin")
    ELSE NoResp

\* serial primary key of availability_overrides, an opaque token as for
\* teacher_availability
FreshOverrideId(teacherId, startUtc) ==
    <<teacherId, startUtc,
      CHOOSE n \in 1..(Cardinality(availabilityOverrides) + 1) :
          /\ \A o \in availabilityOverrides : o.id # <<teacherId, startUtc, n>>
          /\ \A m \in 1..(n - 1) :
                \E o \in availabilityOverrides : o.id = <<teacherId, startUtc, m>>>>

TouchingMut(teacherId, block) ==
    {o \in availabilityOverrides :
        /\ o.teacherId = teacherId /\ o.kind = "add"
        /\ o.startUtc < block.endUtc /\ o.endUtc > block.startUtc}

\* whereTouching: the teacher's 'add' ranges that overlap or touch the block
Touching(teacherId, block) ==
    {o \in availabilityOverrides :
        /\ o.teacherId = teacherId /\ o.kind = "add"
        /\ o.startUtc <= block.endUtc /\ o.endUtc >= block.startUtc}

\* POST /api/teachers/[teacherId]/availability-rules: no session is read;
\* the rule row is stored and the expansion starts.
RuleRequest(p, r) ==
    /\ r.op = "rule"
    /\ pc[p] = "idle"
    /\ IF RulePrecheck(r) # NoResp
       THEN /\ Answer(RulePrecheck(r))
            /\ UNCHANGED availabilityRules
       ELSE /\ Cardinality(availabilityRules) < MaxRules
            /\ availabilityRules' = availabilityRules \cup
                  {[id |-> Cardinality(availabilityRules) + 1, teacherId |-> r.teacherId,
                    weekday |-> r.weekday, startMin |-> r.startMin, endMin |-> r.endMin]}
            /\ Begin(p, r, "mb_select", [EmptyTx EXCEPT !.blocks = RuleBlocks(r, 0)])
    /\ UNCHANGED <<availabilityOverrides, call, teacherAvailability, bookings, bookingSeq,
                    stripeDisabled>>

\* insertMergedAvailabilityBlock, the select: the merged range is the block
\* widened to the ranges found.
MergeSelect(p) ==
    /\ pc[p] = "mb_select"
    /\ IF tx[p].blocks = <<>>
       THEN Finish(p, [Ok("rule", 0) EXCEPT !.status = 201])
       ELSE LET block == Head(tx[p].blocks)
                existing == Touching(req[p].teacherId, block)
                starts == {o.startUtc : o \in existing} \cup {block.startUtc}
                ends == {o.endUtc : o \in existing} \cup {block.endUtc}
            IN  /\ tx' = [tx EXCEPT ![p].merged =
                            [startUtc |-> CHOOSE s \in starts : \A x \in starts : s <= x,
                             endUtc |-> CHOOSE e \in ends : \A x \in ends : e >= x]]
                /\ pc' = [pc EXCEPT ![p] = IF existing = {} THEN "mb_insert"
                                           ELSE "mb_delete"]
                /\ UNCHANGED <<req, last>>
    /\ UNCHANGED <<availabilityRules, availabilityOverrides, call, teacherAvailability,
                    bookings, bookingSeq, stripeDisabled>>

\* the delete, run when the select found something
MergeDelete(p) ==
    /\ pc[p] = "mb_delete"
    /\ availabilityOverrides' =
          availabilityOverrides \ Touching(req[p].teacherId, Head(tx[p].blocks))
    /\ pc' = [pc EXCEPT ![p] = "mb_insert"]
    /\ UNCHANGED <<availabilityRules, call, teacherAvailability, bookings, bookingSeq,
                    stripeDisabled, req, tx, last>>

\* the insert of the merged range; the expansion goes on with the next day
MergeInsert(p) ==
    /\ pc[p] = "mb_insert"
    /\ availabilityOverrides' = availabilityOverrides \cup
          {[id |-> FreshOverrideId(req[p].teacherId, tx[p].merged.startUtc),
            teacherId |-> req[p].teacherId, kind |-> "add",
            startUtc |-> tx[p].merged.startUtc, endUtc |-> tx[p].merged.endUtc]}
    /\ tx' = [tx EXCEPT ![p].blocks = Tail(tx[p].blocks), ![p].merged = EmptyTx.merged]
    /\ pc' = [pc EXCEPT ![p] = "mb_select"]
    /\ UNCHANGED <<availabilityRules, call, teacherAvailability, bookings, bookingSeq,
                    stripeDisabled, req, last>>

\* ------------ weekly preview (availability-rules/route.ts 108-219)

\* Instants are minutes counted from the midnight (UTC) that begins a Sunday.
BLOCKS ==
    <<[key |-> "6-12", startHour |-> 6, endHour |-> 12],
      [key |-> "13-18", startHour |-> 13, endHour |-> 18],
      [key |-> "18-00", startHour |-> 18, endHour |-> 24],
      [key |-> "00-06", startHour |-> 0, endHour |-> 6]>>

overlaps(aStart, aEnd, bStart, bEnd) == Max(aStart, bStart) < Min(aEnd, bEnd)

\* teacher_profiles: the first teacher lives in UTC; the others have no
\* profile row.
teacherProfiles == {[userId |-> 1, timezone |-> "UTC"]}

\* const tz = profile?.timezone || "Europe/Berlin"
Timezone(id) ==
    IF \E profile \in teacherProfiles : profile.userId = id
    THEN (CHOOSE profile \in teacherProfiles : profile.userId = id).timezone
    ELSE "Europe/Berlin"

\* the zone's offset from UTC (Europe/Berlin outside summer time)
UtcOffset(tz) == IF tz = "Europe/Berlin" THEN 60 ELSE 0

\* dt.setZone(tz) and dt.toUTC(): the wall clock of an instant, in minutes
\* from the local midnight that begins the Sunday, and back
setZone(t, tz) == t + UtcOffset(tz)
toUTC(local, tz) == local - UtcOffset(tz)

\* dt.startOf("day"), dt.weekday (1 = Monday .. 7 = Sunday), dt.hour * 60 +
\* dt.minute
clampToDay(local) == local - (local % DAY_MINUTES)
Weekday(local) == ((local \div DAY_MINUTES + 6) % 7) + 1
MinuteOfDay(local) == local % DAY_MINUTES

startOfIsoWeek(local) == clampToDay(local) - (Weekday(local) - 1) * DAY_MINUTES

\* a parameter that is absent or does not parse is null
parseIsoOrNull(v) == IF v = INVALID_ISO THEN MISSING ELSE v

weekStartOf(r, now, tz) ==
    IF parseIsoOrNull(r.startUtc) # MISSING
    THEN clampToDay(setZone(parseIsoOrNull(r.startUtc), tz))
    ELSE startOfIsoWeek(setZone(now, tz))

weekEndExclusiveOf(r, now, tz) ==
    IF parseIsoOrNull(r.endUtc) # MISSING
    THEN clampToDay(setZone(parseIsoOrNull(r.endUtc), tz)) + DAY_MINUTES
    ELSE weekStartOf(r, now, tz) + 7 * DAY_MINUTES

\* the loop over the rows: band b of column col is set by a row whose local
\* start day is that column and whose minutes of the day overlap the band
PreviewGrid(id, tz, weekStart, weekEndExclusive) ==
    LET avail == SelectedRows(id, toUTC(weekStart, tz), toUTC(weekEndExclusive, tz))
        Sets(r, b, col) ==
            LET startLocal == setZone(r.startUtc, tz)
                endLocal == setZone(r.endUtc, tz)
            IN  /\ (clampToDay(startLocal) - weekStart) \div DAY_MINUTES = col
                /\ overlaps(MinuteOfDay(startLocal), MinuteOfDay(endLocal),
                            b.startHour * 60, b.endHour * 60)
    IN  [k \in 1..Len(BLOCKS) |->
            [col \in 0..6 |-> \E r \in avail : Sets(r, BLOCKS[k], col)]]

Previewed(tz, weekStart, weekEndExclusive, grid) ==
    [op |-> "preview", status |-> 200, error |-> "", restored |-> 0,
     timezone |-> tz, grid |-> grid,
     fromLocal |-> weekStart, toLocalExclusive |-> weekEndExclusive]

\* GET /api/teachers/[teacherId]/availability-preview?from=&to= at the
\* instant `now`: no session is read
PreviewRequest(r, now) ==
    /\ r.op = "preview"
    /\ IF r.teacherId = MISSING
       THEN Answer(Err("preview", 400, "Invalid teacherId"))
       ELSE LET tz == Timezone(r.teacherId)
                weekStart == weekStartOf(r, now, tz)
                weekEndExclusive == weekEndExclusiveOf(r, now, tz)
            IN  Answer(Previewed(tz, weekStart, weekEndExclusive,
                                 PreviewGrid(r.teacherId, tz, weekStart, weekEndExclusive)))
    /\ UNCHANGED <<availabilityRules, availabilityOverrides, call, teacherAvailability,
                    bookings, bookingSeq, stripeDisabled>>

\* ------------------------------- interval library (part_015 51-123)

NaN == MISSING          \* a startMs or endMs that is not a finite number

NoCall == [fn |-> "none", args |-> <<>>, done |-> FALSE, result |-> <<>>]

Interval(s, e) == [startMs |-> s, endMs |-> e]

\* what a call hands back: the value it returns, or the message it throws
Returned(v) == [threw |-> "", value |-> v]
Thrown(msg) == [threw |-> msg, value |-> <<>>]

\* the message assertValid throws, "" when it returns
assertValid(i) ==
    IF i.startMs = NaN \/ i.endMs = NaN THEN "Invalid interval numbers"
    ELSE IF i.endMs <= i.startMs THEN "Invalid interval (end <= start)"
    ELSE ""

\* .filter(i => Number.isFinite(i.startMs) && Number.isFinite(i.endMs) &&
\*              i.endMs > i.startMs)
ValidItems(intervals) ==
    SelectSeq(intervals,
              LAMBDA i : i.startMs # NaN /\ i.endMs # NaN /\ i.endMs > i.startMs)

\* .sort((a, b) => a.startMs - b.startMs || a.endMs - b.endMs)
Before(a, b) == a.startMs < b.startMs \/ (a.startMs = b.startMs /\ a.endMs <= b.endMs)

SortItemsMut(items) == items

RECURSIVE SortItems(_)
SortItems(items) ==
    IF items = <<>> THEN <<>>
    ELSE LET i == CHOOSE k \in 1..Len(items) :
                      /\ \A m \in 1..Len(items) : Before(items[k], items[m])
                      /\ \A m \in 1..(k - 1) : ~Before(items[m], items[k])
         IN  <<items[i]>> \o SortItems(SubSeq(items, 1, i - 1)
                                         \o SubSeq(items, i + 1, Len(items)))

\* mergeIntervals of the library (58-85).  Its loop keeps the interval being
\* grown in a variable and pushes it when the next one does not reach it,
\* which gives what MergeLoop gives.
mergeIntervals(intervals) ==
    LET items == SortItems(ValidItems(intervals))
    IN  IF items = <<>> THEN Returned(<<>>)
        ELSE IF \E k \in 1..Len(items) : assertValid(items[k]) # ""
            THEN Thrown(assertValid(items[CHOOSE k \in 1..Len(items) :
                            /\ assertValid(items[k]) # ""
                            /\ \A m \in 1..(k - 1) : assertValid(items[m]) = ""]))
        ELSE Returned(MergeLoop(<<Head(items)>>, Tail(items)))

\* while (j < b.length && b[j].endMs <= curStart) j++
RECURSIVE SkipCuts(_, _, _)
SkipCuts(b, j, curStart) ==
    IF j <= Len(b) /\ b[j].endMs <= curStart THEN SkipCuts(b, j + 1, curStart) ELSE j

RECURSIVE CutLoopMut(_, _, _, _, _)
CutLoopMut(b, k, curStart, curEnd, res) ==
    IF k <= Len(b) /\ b[k].startMs < curEnd
    THEN LET c == b[k]
             pushed == IF c.startMs > curStart
                       THEN Append(res, Interval(curStart, Min(c.startMs, curEnd)))
                       ELSE res
             next == Max(curStart, c.endMs)
         IN  IF next >= curEnd THEN pushed
             ELSE CutLoopMut(b, k + 1, next, curEnd, pushed)
    ELSE res

\* the inner loop of subtractIntervals over the cuts that start before
\* curEnd, and the push of what is left of the base interval after it
RECURSIVE CutLoop(_, _, _, _, _)
CutLoop(b, k, curStart, curEnd, res) ==
    IF k <= Len(b) /\ b[k].startMs < curEnd
    THEN LET c == b[k]
             pushed == IF c.startMs > curStart
                       THEN Append(res, Interval(curStart, Min(c.startMs, curEnd)))
                       ELSE res
             next == Max(curStart, c.endMs)
         IN  IF next >= curEnd THEN pushed
             ELSE CutLoop(b, k + 1, next, curEnd, pushed)
    ELSE IF curStart < curEnd THEN Append(res, Interval(curStart, curEnd))
    ELSE res

RECURSIVE SubtractLoop(_, _, _, _, _)
SubtractLoop(a, b, i, j, res) ==
    IF i > Len(a) THEN res
    ELSE LET first == SkipCuts(b, j, a[i].startMs)
         IN  SubtractLoop(a, b, i + 1, first,
                          CutLoop(b, first, a[i].startMs, a[i].endMs, res))

\* subtractIntervals (87-123)
subtractIntervals(base, cut) ==
    LET a == mergeIntervals(base)
        b == mergeIntervals(cut)
    IN  IF a.threw # "" THEN a
        ELSE IF b.threw # "" THEN b
        ELSE IF a.value = <<>> THEN Returned(<<>>)
        ELSE IF b.value = <<>> THEN a
        ELSE Returned(SubtractLoop(a.value, b.value, 1, 1, <<>>))

\* --------------------------- free slots (free-slots/route.ts 31-82)

START_GRID_MIN == 15

\* mergeIntervals of the free-slots route (31-43): no filter, sorted by start
MergeForSlots(intervals) ==
    IF intervals = <<>> THEN <<>>
    ELSE LET sorted == SortByStart(intervals)
         IN  MergeLoop(<<Head(sorted)>>, Tail(sorted))

Slot(t, e, d) == [startUtc |-> toIso(t), endUtc |-> toIso(e), durationMinutes |-> d]

\* for (const d of durSet): the slots of one start instant that fit and
\* have not been seen
RECURSIVE DurationLoop(_, _, _, _)
DurationLoop(durSet, t, end, slots) ==
    IF durSet = <<>> THEN slots
    ELSE LET d == Head(durSet)
             e == t + d
         IN  DurationLoop(Tail(durSet), t, end,
                          IF e <= end /\ \A k \in 1..Len(slots) : slots[k] # Slot(t, e, d)
                          THEN Append(slots, Slot(t, e, d))
                          ELSE slots)

\* while (t < end) { ...; t += stepMs }
RECURSIVE GridLoop(_, _, _, _)
GridLoop(durSet, t, end, slots) ==
    IF t < end
    THEN GridLoop(durSet, t + START_GRID_MIN, end, DurationLoop(durSet, t, end, slots))
    ELSE slots

RoundUpToGridMut(t) == t

\* the start rounded up to the grid
RoundUpToGrid(t) ==
    IF t % START_GRID_MIN # 0 THEN t + (START_GRID_MIN - (t % START_GRID_MIN)) ELSE t

RECURSIVE IntervalLoop(_, _, _, _, _)
IntervalLoop(intervals, fromMs, toMs, durSet, slots) ==
    IF intervals = <<>> THEN slots
    ELSE LET start == Max(Head(intervals).startMs, fromMs)
             end == Min(Head(intervals).endMs, toMs)
         IN  IntervalLoop(Tail(intervals), fromMs, toMs, durSet,
                          IF end <= start THEN slots
                          ELSE GridLoop(durSet, RoundUpToGrid(start), end, slots))

\* a.startUtc.localeCompare(b.startUtc) < 0 for two strings toISOString
\* wrote: the first field that differs decides
IsoBefore(a, b) ==
    \E k \in 1..Len(a) : a[k] < b[k] /\ \A m \in 1..(k - 1) : a[m] = b[m]

\* .sort((a, b) => a.startUtc.localeCompare(b.startUtc) ||
\*                 a.durationMinutes - b.durationMinutes), a stable sort
SlotBefore(a, b) ==
    \/ IsoBefore(a.startUtc, b.startUtc)
    \/ a.startUtc = b.startUtc /\ a.durationMinutes < b.durationMinutes

SortSlotsMut(slots) == slots

RECURSIVE SortSlots(_)
SortSlots(slots) ==
    IF slots = <<>> THEN <<>>
    ELSE LET i == CHOOSE k \in 1..Len(slots) :
                      /\ \A m \in 1..Len(slots) : ~SlotBefore(slots[m], slots[k])
                      /\ \A m \in 1..(k - 1) : SlotBefore(slots[k], slots[m])
         IN  <<slots[i]>> \o SortSlots(SubSeq(slots, 1, i - 1)
                                         \o SubSeq(slots, i + 1, Len(slots)))

\* generateSlots (45-82)
generateSlots(intervals, fromMs, toMs, durations) ==
    LET durSet == SelectSeq(durations, LAMBDA d : d \in {30, 45, 60})
    IN  SortSlots(IntervalLoop(intervals, fromMs, toMs, durSet, <<>>))

\* ------------------------ free-slots GET (free-slots/route.ts 84-169)

\* select durationMinutes from lessonOffers where teacherId and isActive = 1
\* (the rows come in no promised order; here by duration)
RECURSIVE OfferDurations(_)
OfferDurations(offers) ==
    IF offers = {} THEN <<>>
    ELSE LET o == CHOOSE x \in offers : \A y \in offers : x.durationMinutes <= y.durationMinutes
         IN  <<o.durationMinutes>> \o OfferDurations(offers \ {o})

ActiveOffers(teacherId) ==
    {o \in lessonOffers : o.teacherId = teacherId /\ o.isActive = 1}

\* const durations = offers.length ? offers.map(...) : [30, 45, 60]
Durations(teacherId) ==
    IF ActiveOffers(teacherId) # {} THEN OfferDurations(ActiveOffers(teacherId))
    ELSE <<30, 45, 60>>

FreePrecheck(r) ==
    IF r.teacherId = MISSING THEN Err("free-slots", 400, "Invalid teacherId")
    ELSE IF r.startUtc \in {MISSING, INVALID_ISO} \/ r.endUtc \in {MISSING, INVALID_ISO}
        THEN Err("free-slots", 400, "Missing/invalid from/to")
    ELSE IF r.endUtc <= r.startUtc THEN Err("free-slots", 400, "Invalid range")
    ELSE NoResp

FreeSlots(teacherId, fromMs, toMs) ==
    LET intervalsRaw == SelectSeq(OrderByStart(SelectedRows(teacherId, fromMs, toMs)),
                                  LAMBDA i : i.endMs > i.startMs)
        merged == MergeForSlots(intervalsRaw)
    IN  generateSlots(merged, fromMs, toMs, Durations(teacherId))

Offered(teacherId, slots) ==
    [op |-> "free-slots", status |-> 200, error |-> "", restored |-> 0,
     teacherId |-> teacherId, slots |-> slots]

\* GET /api/teachers/[teacherId]/free-slots?from=&to= : no session is read
FreeSlotsRequest(r) ==
    /\ r.op = "free-slots"
    /\ IF FreePrecheck(r) # NoResp
       THEN Answer(FreePrecheck(r))
       ELSE Answer(Offered(r.teacherId, FreeSlots(r.teacherId, r.startUtc, r.endUtc)))
    /\ UNCHANGED <<availabilityRules, availabilityOverrides, call, teacherAvailability,
                    bookings, bookingSeq, stripeDisabled>>

\* -------------------------------------------------- library calls

\* The call in call.args is evaluated and its result kept.
Evaluate(result) ==
    /\ ~call.done
    /\ call' = [call EXCEPT !.done = TRUE, !.result = result]
    /\ UNCHANGED <<teacherAvailability, bookings, bookingSeq, stripeDisabled, pc, req, tx,
                    last, availabilityRules, availabilityOverrides>>

CallMergeIntervals ==
    /\ call.fn = "mergeIntervals"
    /\ Evaluate(mergeIntervals(call.args[1]))

CallSubtractIntervals ==
    /\ call.fn = "subtractIntervals"
    /\ Evaluate(subtractIntervals(call.args[1], call.args[2]))

\* GET (free-slots) lines 148-149: the rows are merged and the slots
\* generated from the merged intervals
CallGenerateSlots ==
    /\ call.fn = "generateSlots"
    /\ Evaluate(generateSlots(MergeForSlots(call.args[1]), call.args[2], call.args[3],
                               call.args[4]))

\* ------------------------------------------------------------ specification

\* the tables empty and no request in flight
EmptyStore ==
    /\ teacherAvailability = {}
    /\ bookings = {}
    /\ bookingSeq = 0
    /\ stripeDisabled \in BOOLEAN
    /\ pc = [p \in Procs |-> "idle"]
    /\ req = [p \in Procs |-> NoReq]
    /\ tx = [p \in Procs |-> EmptyTx]
    /\ last = NoResp
    /\ availabilityRules = {}
    /\ availabilityOverrides = {}

Init == EmptyStore /\ call = NoCall

AStudent == CHOOSE u \in Students : TRUE
ATeacher == CHOOSE t \in Teachers : \A u \in Teachers : t <= u
OtherTeachers == Teachers \ {ATeacher}
FirstBlock == CHOOSE s \in BlockStarts : \A x \in BlockStarts : s <= x
LastBlock == CHOOSE s \in BlockStarts : \A x \in BlockStarts : s >= x

\* Requests the model submits: the well-formed ones (every instant and
\* duration for the first teacher, the first block for the others), and one
\* malformed request for each way a handler's validation can fail.
CheckoutInputs ==
    LET good == {[NoReq EXCEPT !.op = "checkout", !.user = u, !.teacherId = t,
                         !.startUtc = s, !.durationMinutes = d] :
                    u \in Students, t \in Teachers,
                    s \in BlockStarts \cup {OffGrid}, d \in {30, 60}}
        base == [NoReq EXCEPT !.op = "checkout", !.user = AStudent, !.teacherId = ATeacher,
                        !.startUtc = FirstBlock, !.durationMinutes = 30]
    IN  {r \in good : r.teacherId = ATeacher \/ r.startUtc = FirstBlock}
          \cup {[base EXCEPT !.user = NoUser], [base EXCEPT !.teacherId = MISSING],
                [base EXCEPT !.startUtc = MISSING], [base EXCEPT !.startUtc = INVALID_ISO],
                [base EXCEPT !.durationMinutes = MISSING],
                [base EXCEPT !.durationMinutes = 45], [base EXCEPT !.durationMinutes = 90]}

InsertInputs ==
    LET good == {[NoReq EXCEPT !.op = "insert", !.user = t, !.teacherId = t,
                         !.startUtc = s, !.endUtc = e] :
                    t \in Teachers, s \in BlockStarts \cup {OffGrid},
                    e \in {b + GRID_MINUTES : b \in BlockStarts}}
        base == [NoReq EXCEPT !.op = "insert", !.user = ATeacher, !.teacherId = ATeacher,
                        !.startUtc = FirstBlock, !.endUtc = FirstBlock + GRID_MINUTES]
    IN  {r \in good :
            /\ (r.teacherId = ATeacher
                  \/ (r.startUtc = FirstBlock /\ r.endUtc = FirstBlock + GRID_MINUTES))
            /\ (r.startUtc = OffGrid => r.endUtc = LastBlock + GRID_MINUTES)}
          \cup {[base EXCEPT !.user = NoUser], [base EXCEPT !.user = AStudent],
                [base EXCEPT !.endUtc = MISSING]}

CancelInputs ==
    {[NoReq EXCEPT !.op = "cancel", !.user = u, !.bookingId = b] :
        u \in Users, b \in 1..MaxBookingId}
      \cup {[NoReq EXCEPT !.op = "cancel", !.user = NoUser, !.bookingId = 1],
            [NoReq EXCEPT !.op = "cancel", !.user = AStudent]}

WebhookInputs ==
    {[NoReq EXCEPT !.op = "webhook", !.sig = "valid", !.type = "checkout.session.completed",
             !.bookingId = b, !.paymentIntent = pi] :
        b \in 1..MaxBookingId \cup {MISSING}, pi \in {1}}
      \cup {[NoReq EXCEPT !.op = "webhook", !.sig = "missing"],
            [NoReq EXCEPT !.op = "webhook", !.sig = "invalid"],
            [NoReq EXCEPT !.op = "webhook", !.sig = "valid", !.type = "charge.refunded"]}

\* Range deletes of one block, a delete by somebody who is not the teacher and
\* a delete of an empty range.
DeleteInputs ==
    LET good == {[NoReq EXCEPT !.op = "delete", !.user = t, !.teacherId = t,
                         !.startUtc = s, !.endUtc = s + GRID_MINUTES] :
                    t \in Teachers, s \in BlockStarts}
        base == [NoReq EXCEPT !.op = "delete", !.user = ATeacher, !.teacherId = ATeacher,
                        !.startUtc = FirstBlock, !.endUtc = FirstBlock + GRID_MINUTES]
    IN  {r \in good : r.teacherId = ATeacher \/ r.startUtc = FirstBlock}
          \cup {[base EXCEPT !.user = AStudent], [base EXCEPT !.endUtc = FirstBlock]}

\* Deletes by id: the ids the first teacher's rows at the first block can have
\* (as many incarnations as there are requests that can insert one at a time).
DeleteByIdInputs ==
    {[NoReq EXCEPT !.op = "delete", !.user = ATeacher, !.teacherId = ATeacher,
             !.rowId = <<ATeacher, FirstBlock, n>>] : n \in 1..NumProcs}

Step(p) ==
    \/ \E stripeThrows \in BOOLEAN : CheckoutCommit(p, stripeThrows)
    \/ CancelUpdate(p)
    \/ CancelRead(p)
    \/ CancelCommit(p)
    \/ InsertLoop(p)
    \/ InsertCommit(p)

\* Requests are served one at a time, each to its end before the next.
SeqCheckoutRequest(p, r) ==
    AllIdle /\ CheckoutRequest(p, r) /\ bookingSeq' <= SeqBookingIds
SeqInsertRequest(p, r) == AllIdle /\ InsertRequest(p, r)
SeqCancelRequest(p, r) == AllIdle /\ CancelRequest(p, r)
SeqWebhook(r) == AllIdle /\ Webhook(r)
SeqDeleteRequest(r) == AllIdle /\ DeleteRequest(r)

SeqNext ==
    \/ \E p \in SeqProcs :
          \/ \E r \in CheckoutInputs : SeqCheckoutRequest(p, r)
          \/ \E r \in InsertInputs : SeqInsertRequest(p, r)
          \/ \E r \in CancelInputs : SeqCancelRequest(p, r)
          \/ Step(p)
    \/ \E r \in WebhookInputs : SeqWebhook(r)
    \/ \E r \in DeleteInputs \cup DeleteByIdInputs : SeqDeleteRequest(r)

\* Requests are served concurrently.  To keep the interleavings enumerable the
\* concurrent requests are the well-formed ones that concern the first teacher,
\* to the handlers that run a transaction and to the webhook; deletes, single
\* statements that only remove rows, are submitted one at a time (SeqNext).
Concurrent(r) ==
    /\ r.user # NoUser
    /\ r.op = "checkout" =>
          r.teacherId = ATeacher /\ r.startUtc \in BlockStarts /\ r.durationMinutes \in {30, 60}
    /\ r.op = "insert" =>
          r.teacherId = ATeacher /\ r.user = ATeacher /\ r.startUtc = FirstBlock
            /\ r.endUtc = LastBlock + GRID_MINUTES
    /\ r.op = "cancel" => r.user \in Students /\ r.bookingId # MISSING
    /\ r.op = "webhook" => r.sig = "valid" /\ r.bookingId # MISSING

ConcRequest(p) ==
    \/ \E r \in {x \in CheckoutInputs : Concurrent(x)} : CheckoutRequest(p, r)
    \/ \E r \in {x \in InsertInputs : Concurrent(x)} : InsertRequest(p, r)
    \/ \E r \in {x \in CancelInputs : Concurrent(x)} : CancelRequest(p, r)

Next ==
    \/ \E p \in Procs : ConcRequest(p) \/ Step(p)
    \/ \E r \in {x \in WebhookInputs : x.user = NoUser /\ x.sig = "valid"
                                         /\ x.bookingId # MISSING} : Webhook(r)

SeqSpec == Init /\ [][SeqNext]_vars

Spec == Init /\ [][Next]_vars

\* ------------------------------------------- availability management

\* The teacher's calendar on its own: manual inserts, listings, deletes in
\* each of the three modes and rule creation, one request at a time, over
\* AvailBlocks grid instants.
AvailBlocks == 3

AvailStarts == {GRID_MINUTES * i : i \in 0..(AvailBlocks - 1)}
AvailEnds == {s + GRID_MINUTES : s \in AvailStarts}
AvailRanges == {<<s, e>> \in AvailStarts \X AvailEnds : e > s}

\* Ranges that start or end between grid instants: some hold one or two whole
\* blocks, some none.
OffGridRanges ==
    {<<OffGrid, GRID_MINUTES>>, <<OffGrid, 2 * GRID_MINUTES + 10>>,
     <<OffGrid, OffGrid + 10>>, <<FirstBlock, GRID_MINUTES - 10>>,
     <<GRID_MINUTES + OffGrid, 2 * GRID_MINUTES - 10>>,
     <<GRID_MINUTES, AvailBlocks * GRID_MINUTES + 10>>}

AvailInsertInputs ==
    LET base == [NoReq EXCEPT !.op = "insert", !.user = ATeacher, !.teacherId = ATeacher,
                        !.startUtc = FirstBlock, !.endUtc = FirstBlock + GRID_MINUTES]
    IN  {[base EXCEPT !.startUtc = x[1], !.endUtc = x[2]] : x \in AvailRanges}
          \cup {[base EXCEPT !.user = t, !.teacherId = t] : t \in OtherTeachers}
          \cup {[base EXCEPT !.startUtc = x[1], !.endUtc = x[2]] : x \in OffGridRanges}
          \cup {[base EXCEPT !.user = NoUser], [base EXCEPT !.user = AStudent],
                [base EXCEPT !.endUtc = MISSING], [base EXCEPT !.endUtc = FirstBlock]}

\* Listings of the whole calendar, of its first block and of its first block
\* and a half, by the teacher, and one by somebody else.
GetInputs ==
    LET base == [NoReq EXCEPT !.op = "get", !.user = ATeacher, !.teacherId = ATeacher,
                        !.startUtc = FirstBlock,
                        !.endUtc = FirstBlock + AvailBlocks * GRID_MINUTES]
    IN  {base, [base EXCEPT !.mode = "atomic"],
         [base EXCEPT !.endUtc = FirstBlock + GRID_MINUTES],
         [base EXCEPT !.endUtc = FirstBlock + GRID_MINUTES + OffGrid],
         [base EXCEPT !.user = AStudent], [base EXCEPT !.endUtc = MISSING]}

\* The ids GET can give to a merged event of the first teacher.
EventIds == {EventId(ATeacher, toIso(x[1]), toIso(x[2])) : x \in AvailRanges}

\* Deletes by each such id, by each range and by row id; an id in the pipe
\* format, an id of another teacher's event, a truncated id, an id whose end
\* is not after its start, and deletes by somebody who is not the teacher.
AvailDeleteInputs ==
    LET base == [NoReq EXCEPT !.op = "delete", !.user = ATeacher, !.teacherId = ATeacher]
        first == EventId(ATeacher, toIso(FirstBlock), toIso(FirstBlock + GRID_MINUTES))
    IN  {[base EXCEPT !.eventId = id] : id \in EventIds}
          \cup {[base EXCEPT !.startUtc = x[1], !.endUtc = x[2]] : x \in AvailRanges}
          \cup {[base EXCEPT !.rowId = <<t, FirstBlock, 1>>] : t \in Teachers}
          \cup {[base EXCEPT !.eventId = <<ATeacher, PIPE>> \o toIso(FirstBlock) \o <<PIPE>>
                                            \o toIso(FirstBlock + GRID_MINUTES)],
                [base EXCEPT !.eventId =
                    EventId(CHOOSE o \in OtherTeachers : TRUE, toIso(FirstBlock),
                            toIso(FirstBlock + GRID_MINUTES))],
                [base EXCEPT !.eventId = SubSeq(first, 1, Len(first) - 1)],
                [base EXCEPT !.eventId =
                    EventId(ATeacher, toIso(FirstBlock + GRID_MINUTES), toIso(FirstBlock))],
                [base EXCEPT !.user = AStudent, !.eventId = first],
                [base EXCEPT !.user = NoUser, !.eventId = first],
                [base EXCEPT !.user = AStudent, !.startUtc = FirstBlock,
                             !.endUtc = FirstBlock + GRID_MINUTES],
                [base EXCEPT !.user = AStudent, !.rowId = <<ATeacher, FirstBlock, 1>>],
                [base EXCEPT !.startUtc = FirstBlock, !.endUtc = FirstBlock]}

\* Rules for the first teacher's Sundays, sent by the teacher, by a student
\* and by nobody, one that spans two blocks, and three that validation turns
\* down.
RuleInputs ==
    LET base == [NoReq EXCEPT !.op = "rule", !.user = ATeacher, !.teacherId = ATeacher,
                        !.weekday = 0, !.startMin = 0, !.endMin = GRID_MINUTES]
    IN  {[base EXCEPT !.user = u, !.startMin = s, !.endMin = s + GRID_MINUTES] :
            u \in {NoUser, ATeacher, AStudent}, s \in {0, GRID_MINUTES}}
          \cup {[base EXCEPT !.endMin = 2 * GRID_MINUTES]}
          \cup {[base EXCEPT !.endMin = 0], [base EXCEPT !.weekday = 7],
                [base EXCEPT !.teacherId = MISSING]}

AvailInsert(p, r) == AllIdle /\ InsertRequest(p, r)
AvailGet(r) == AllIdle /\ GetRequest(r)
AvailDelete(r) == AllIdle /\ DeleteRequest(r)

AvailNext ==
    \/ \E p \in SeqProcs :
          \/ \E r \in AvailInsertInputs : AvailInsert(p, r)
          \/ InsertLoop(p)
          \/ InsertCommit(p)
    \/ \E r \in GetInputs : AvailGet(r)
    \/ \E r \in AvailDeleteInputs : AvailDelete(r)

\* Nothing here reaches Stripe.
AvailInit == Init /\ ~stripeDisabled

AvailSpec == AvailInit /\ [][AvailNext]_vars

\* The writers of a teacher's calendar side by side: rule creation, and
\* manual inserts and deletes of the first block by the teacher, by a student
\* and by nobody.
OwnerInsertInputs ==
    {r \in AvailInsertInputs :
        r.startUtc = FirstBlock /\ r.endUtc = FirstBlock + GRID_MINUTES
            /\ r.teacherId = ATeacher}

OwnerDeleteInputs ==
    {r \in AvailDeleteInputs :
        \/ r.startUtc = FirstBlock /\ r.endUtc = FirstBlock + GRID_MINUTES
        \/ r.eventId = EventId(ATeacher, toIso(FirstBlock), toIso(FirstBlock + GRID_MINUTES))
        \/ r.rowId = <<ATeacher, FirstBlock, 1>>}

RuleInsert(p, r) == AllIdle /\ InsertRequest(p, r)
RuleDelete(r) == AllIdle /\ DeleteRequest(r)
AvailRule(p, r) == AllIdle /\ RuleRequest(p, r)

RuleNext ==
    \/ \E p \in SeqProcs :
          \/ \E r \in RuleInputs : AvailRule(p, r)
          \/ \E r \in OwnerInsertInputs : RuleInsert(p, r)
          \/ MergeSelect(p)
          \/ MergeDelete(p)
          \/ MergeInsert(p)
          \/ InsertLoop(p)
          \/ InsertCommit(p)
    \/ \E r \in OwnerDeleteInputs : RuleDelete(r)

RuleSpec == AvailInit /\ [][RuleNext]_vars

\* ------------------------------------------------ interval library calls

\* The library is called with lists of intervals whose end points lie in
\* 0..MaxPoint, among them intervals that are empty, reversed or not numbers:
\* mergeIntervals with up to MaxLen + 1 intervals, subtractIntervals with up
\* to MaxLen + 1 intervals shared between the base and the cut.
MaxPoint == 3
MaxLen == 2

Malformed == {Interval(1, 1), Interval(2, 1), Interval(NaN, 1)}
WellFormedIntervals ==
    {i \in {Interval(s, e) : s \in 0..MaxPoint, e \in 0..MaxPoint} : i.endMs > i.startMs}

ListsOf(S, n) == UNION {[1..k -> S] : k \in 0..n}

MergeCalls ==
    {[NoCall EXCEPT !.fn = "mergeIntervals", !.args = <<l>>] :
        l \in ListsOf(WellFormedIntervals \cup Malformed, MaxLen + 1)}

SubtractCalls ==
    {[NoCall EXCEPT !.fn = "subtractIntervals",
                    !.args = <<SubSeq(x[1], 1, x[2]), SubSeq(x[1], x[2] + 1, Len(x[1]))>>] :
        x \in {y \in ListsOf(WellFormedIntervals \cup Malformed, MaxLen + 1)
                        \X (0..(MaxLen + 1)) : y[2] <= Len(y[1])}}

AlgebraInit == EmptyStore /\ ~stripeDisabled /\ call \in MergeCalls \cup SubtractCalls

AlgebraNext == CallMergeIntervals \/ CallSubtractIntervals

AlgebraSpec == AlgebraInit /\ [][AlgebraNext]_vars

\* ------------------------------------------------------ free-slot calls

\* Free slots are generated from up to MaxLen availability rows that lie on
\* the 30-minute grid within SlotBlocks blocks, for query ranges that start
\* and end on and off the grids, and for lists of durations in and out of
\* order, repeated, unsupported and empty.
SlotBlocks == 3

SlotRows ==
    {i \in {Interval(GRID_MINUTES * a, GRID_MINUTES * b) : a \in 0..SlotBlocks,
                                                            b \in 0..SlotBlocks} :
        i.endMs > i.startMs}

QueryInstants == {0, 20, GRID_MINUTES + START_GRID_MIN, SlotBlocks * GRID_MINUTES}

DurationLists == {<<30, 45, 60>>, <<60, 30>>, <<45>>, <<30, 30>>, <<90, 30>>, <<>>}

GenerateCalls ==
    {[NoCall EXCEPT !.fn = "generateSlots", !.args = <<rows, from, to, durations>>] :
        rows \in ListsOf(SlotRows, MaxLen),
        from \in QueryInstants, to \in QueryInstants, durations \in DurationLists}

SlotInit ==
    /\ EmptyStore /\ ~stripeDisabled
    /\ call \in {c \in GenerateCalls : c.args[3] > c.args[2]}

SlotNext == CallGenerateSlots

SlotSpec == SlotInit /\ [][SlotNext]_vars

\* -------------------------------------------------- free-slot listings

\* The listing next to the handlers that fill the calendar and that reserve
\* from it, one request at a time: manual inserts by both teachers over
\* AvailBlocks grid instants, listings of the whole calendar and of parts of
\* it, and checkouts of every start on the 15-minute grid.
FreeInsertInputs ==
    {r \in AvailInsertInputs : r.user = r.teacherId /\ <<r.startUtc, r.endUtc>> \in AvailRanges}

FreeInputs ==
    LET base == [NoReq EXCEPT !.op = "free-slots", !.teacherId = ATeacher,
                        !.startUtc = FirstBlock,
                        !.endUtc = FirstBlock + AvailBlocks * GRID_MINUTES]
    IN  {[base EXCEPT !.teacherId = t] : t \in Teachers}
          \cup {[base EXCEPT !.startUtc = FirstBlock + 20],
                [base EXCEPT !.endUtc = FirstBlock + GRID_MINUTES + START_GRID_MIN],
                [base EXCEPT !.teacherId = MISSING], [base EXCEPT !.endUtc = MISSING],
                [base EXCEPT !.endUtc = FirstBlock]}

FreeCheckoutInputs ==
    {[NoReq EXCEPT !.op = "checkout", !.user = AStudent, !.teacherId = t,
             !.startUtc = s, !.durationMinutes = d] :
        t \in Teachers,
        s \in {START_GRID_MIN * i : i \in 0..(2 * AvailBlocks - 1)}, d \in {30, 45, 60}}

FreeInsert(p, r) == AllIdle /\ InsertRequest(p, r)
FreeGet(r) == AllIdle /\ FreeSlotsRequest(r)
FreeCheckout(p, r) == AllIdle /\ CheckoutRequest(p, r) /\ bookingSeq' <= SeqBookingIds

FreeNext ==
    \/ \E p \in SeqProcs :
          \/ \E r \in FreeInsertInputs : FreeInsert(p, r)
          \/ InsertLoop(p)
          \/ InsertCommit(p)
          \/ \E r \in FreeCheckoutInputs : FreeCheckout(p, r)
          \/ \E stripeThrows \in BOOLEAN : CheckoutCommit(p, stripeThrows)
    \/ \E r \in FreeInputs : FreeGet(r)

FreeSpec == AvailInit /\ [][FreeNext]_vars

\* ------------------------------------------- concurrent rule creation

\* Rule creations by the first teacher that run at the same time: their
\* expansions interleave statement by statement (the select, the delete and
\* the insert of insertMergedAvailabilityBlock are sent to the pool one by
\* one, outside any transaction).
MergeInputs ==
    {r \in RuleInputs : r.user = ATeacher /\ RulePrecheck(r) = NoResp}

MergeNext ==
    \E p \in Procs :
        \/ \E r \in MergeInputs : RuleRequest(p, r)
        \/ MergeSelect(p)
        \/ MergeDelete(p)
        \/ MergeInsert(p)

MergeSpec == AvailInit /\ [][MergeNext]_vars

\* ------------------------------------------------- the booking ledger

\* The handlers that create, confirm and cancel bookings next to the manual
\* insert, one request at a time, for the first teacher and one student, with
\* as many bookings as the sequence issues ids.
BookInsertInputs ==
    {r \in InsertInputs : r.user = ATeacher /\ r.teacherId = ATeacher
                            /\ r.startUtc \in BlockStarts}

BookCheckoutInputs ==
    {r \in CheckoutInputs : r.user = AStudent /\ r.teacherId = ATeacher
                              /\ r.startUtc \in BlockStarts /\ r.durationMinutes \in {30, 60}}

CreateInputs ==
    LET base == [NoReq EXCEPT !.op = "create", !.user = AStudent, !.teacherId = ATeacher,
                        !.startUtc = FirstBlock, !.endUtc = FirstBlock + GRID_MINUTES]
    IN  {[base EXCEPT !.startUtc = s, !.endUtc = s + d] : s \in BlockStarts, d \in {30, 60}}
          \cup {[base EXCEPT !.user = NoUser], [base EXCEPT !.endUtc = MISSING],
                [base EXCEPT !.startUtc = INVALID_ISO], [base EXCEPT !.endUtc = FirstBlock],
                [base EXCEPT !.endUtc = FirstBlock + 20],
                [base EXCEPT !.teacherId = CHOOSE t \in OtherTeachers : TRUE]}

BookCancelInputs ==
    {r \in CancelInputs : r.user = AStudent /\ r.bookingId # MISSING}

BookWebhookInputs ==
    {r \in WebhookInputs : r.sig = "valid" /\ r.bookingId # MISSING}

BookInsert(p, r) == AllIdle /\ InsertRequest(p, r)
BookCheckout(p, r) == AllIdle /\ CheckoutRequest(p, r)
BookCreate(r) == AllIdle /\ CreateRequest(r)
BookCancel(p, r) == AllIdle /\ CancelRequest(p, r)
BookWebhook(r) == AllIdle /\ Webhook(r)

BookNext ==
    \/ \E p \in SeqProcs :
          \/ \E r \in BookInsertInputs : BookInsert(p, r)
          \/ \E r \in BookCheckoutInputs : BookCheckout(p, r)
          \/ \E r \in BookCancelInputs : BookCancel(p, r)
          \/ Step(p)
    \/ \E r \in CreateInputs : BookCreate(r)
    \/ \E r \in BookWebhookInputs : BookWebhook(r)

BookSpec == AvailInit /\ [][BookNext]_vars

\* ------------------------------------------------------ weekly preview

\* The preview next to the manual insert, one request at a time.  The first
\* teacher inserts blocks in the night, across the start of the morning band,
\* at noon, before midnight, on the next day and a week later; another
\* teacher, whose clock is an hour ahead, a block that starts on the next
\* local day.  Previews are asked for the week of `now`, for the week that
\* begins on a given day and for a single day.
PreviewRanges ==
    {<<0, GRID_MINUTES>>, <<6 * 60 - GRID_MINUTES, 6 * 60 + GRID_MINUTES>>,
     <<12 * 60, 12 * 60 + GRID_MINUTES>>, <<DAY_MINUTES - GRID_MINUTES, DAY_MINUTES>>,
     <<DAY_MINUTES + 8 * 60, DAY_MINUTES + 8 * 60 + GRID_MINUTES>>,
     <<7 * DAY_MINUTES, 7 * DAY_MINUTES + GRID_MINUTES>>}

PreviewInsertInputs ==
    LET base == [NoReq EXCEPT !.op = "insert", !.user = ATeacher, !.teacherId = ATeacher]
    IN  {[base EXCEPT !.startUtc = x[1], !.endUtc = x[2]] : x \in PreviewRanges}
          \cup {[base EXCEPT !.user = t, !.teacherId = t, !.startUtc = DAY_MINUTES - 60,
                            !.endUtc = DAY_MINUTES - GRID_MINUTES] : t \in OtherTeachers}

PreviewInputs ==
    LET base == [NoReq EXCEPT !.op = "preview", !.teacherId = ATeacher]
    IN  {[base EXCEPT !.teacherId = t, !.startUtc = from] :
            t \in Teachers, from \in {MISSING, 0, DAY_MINUTES + 10 * 60}}
          \cup {[base EXCEPT !.startUtc = 0, !.endUtc = 0],
                [base EXCEPT !.startUtc = INVALID_ISO], [base EXCEPT !.teacherId = MISSING]}

\* a Tuesday morning and the last half hour of a Saturday
NowInstants == {2 * DAY_MINUTES + 10 * 60, 7 * DAY_MINUTES - GRID_MINUTES}

PreviewInsert(p, r) == AllIdle /\ InsertRequest(p, r)
PreviewGet(r, now) == AllIdle /\ PreviewRequest(r, now)

PreviewNext ==
    \/ \E p \in SeqProcs :
          \/ \E r \in PreviewInsertInputs : PreviewInsert(p, r)
          \/ InsertLoop(p)
          \/ InsertCommit(p)
    \/ \E r \in PreviewInputs : \E now \in NowInstants : PreviewGet(r, now)

PreviewSpec == AvailInit /\ [][PreviewNext]_vars

\* ------------------------------------------------------------------- claims

\* the rows among `rows` of teacher t that start at instant s
BlocksAt(rows, t, s) == {r \in rows : r.teacherId = t /\ r.startUtc = s}

\* the instants s, s + 30, ... below e
Instants(s, e) == {i \in s..(e - 1) : (i - s) % 30 = 0}

\* the blocks a reservation of d minutes at s needs
Wanted(s, d) == IF d = 60 THEN {s, s + 30} ELSE {s}

HasActiveOffer(t, d) ==
    \E o \in lessonOffers : o.teacherId = t /\ o.durationMinutes = d /\ o.isActive = 1

WellFormed(r) ==
    /\ r.op = "checkout"
    /\ r.user # NoUser
    /\ r.teacherId \in Teachers
    /\ r.startUtc >= 0
    /\ r.durationMinutes \in {30, 60}

WellFormedInputs == {r \in CheckoutInputs : WellFormed(r)}
OfferedInputs ==
    {r \in WellFormedInputs : HasActiveOffer(r.teacherId, r.durationMinutes)}
UnofferedInputs == WellFormedInputs \ OfferedInputs
InvalidInputs ==
    {r \in CheckoutInputs :
        /\ r.user # NoUser
        /\ \/ r.durationMinutes \notin {30, 60}
           \/ r.teacherId = MISSING
           \/ r.startUtc \in {MISSING, INVALID_ISO}}

Stored == <<bookings, teacherAvailability>>

\* what every first step of a checkout in slot p shows
CheckoutStep(p) == pc[p] = "idle" /\ (last'.op = "checkout" \/ pc'[p] = "co_delete")

\* a checkout answered with a failure that wrote nothing and left no
\* transaction open
CheckoutFails(p) ==
    /\ last'.op = "checkout" /\ last'.status >= 400
    /\ UNCHANGED Stored
    /\ pc'[p] = "idle" /\ tx'[p] = EmptyTx

\* C1 (Exclusivity).  When two checkout transactions that need the same atomic
\* block run concurrently, only one commits a booking: a checkout that finds a
\* block it read already consumed by another transaction commits no booking,
\* so no two bookings consume the same block.
C1_Exclusivity ==
    [][
        \A p \in Procs :
            (/\ pc[p] = "co_delete"
             /\ pc'[p] = "idle"
             /\ \E r \in tx[p].rows : r \notin teacherAvailability)
                => bookings' = bookings
    ]_vars

\* C2.  When the Stripe call throws during a reservation, the transaction
\* rolls back: the booking the attempt inserted does not exist, every stored
\* block is still stored, and the response is a failure.
C2_StripeFailureRollsBack ==
    [][
        \A p \in SeqProcs :
            /\ (pc[p] = "idle" /\ pc'[p] = "co_delete") => UNCHANGED Stored
            /\ CheckoutCommit(p, TRUE) =>
                  /\ UNCHANGED Stored
                  /\ \A nb \in tx[p].newBooking : \A b \in bookings' : b.id # nb.id
                  /\ last'.op = "checkout" /\ last'.status >= 400
    ]_vars

C2_Witness ==
    /\ last = Err("checkout", 400, "Stripe request failed")
    /\ bookingSeq > 0
    /\ \A b \in bookings : b.id # bookingSeq
    /\ BlocksAt(teacherAvailability, ATeacher, FirstBlock) # {}

AllowedEdges ==
    {<<"pending", "paid">>, <<"pending", "canceled">>, <<"paid", "refunded">>}

\* C3.  A booking's status changes only along pending -> paid,
\* pending -> canceled and paid -> refunded.
C3_StatusTransitions ==
    [][
        \A a \in bookings : \A b \in bookings' :
            (a.id = b.id /\ a.status # b.status) => <<a.status, b.status>> \in AllowedEdges
    ]_vars

\* C4.  A reservation of 30 or 60 minutes for which a needed block (S, and
\* S + 30 for 60 minutes) is missing or is not 30 minutes long fails: no
\* booking is created, no block is deleted, no transaction stays open.  (Read
\* from the step: a step that is not such a failure is the first step of no
\* request that lacks a block.)
C4_MissingBlockFails ==
    [][
        \A p \in SeqProcs : \A r \in WellFormedInputs :
            (/\ CheckoutStep(p)
             /\ ~CheckoutFails(p)
             /\ \E s \in Wanted(r.startUtc, r.durationMinutes) :
                   \/ BlocksAt(teacherAvailability, r.teacherId, s) = {}
                   \/ \E x \in BlocksAt(teacherAvailability, r.teacherId, s) :
                         x.endUtc - x.startUtc # 30)
                => ~CheckoutRequest(p, r)
    ]_vars

C4_Witness ==
    /\ last = Err("checkout", 400, "Slot not available")
    /\ BlocksAt(teacherAvailability, ATeacher, FirstBlock) # {}
    /\ BlocksAt(teacherAvailability, ATeacher, FirstBlock + 30) = {}
    /\ bookings = {}

\* C5 (Sequential lock).  With requests served one after the other: a
\* 30-minute reservation at S for a teacher with a block at S and an active
\* offer is accepted and, the payment step not failing, succeeds and deletes
\* the block; while the teacher has no block at S every reservation at S fails
\* with "Slot not available"; and only a cancellation or an insert adds a
\* block.  (The first two are read from the step: a step that does
\* not accept is the first step of no 30-minute request whose block is there,
\* and a step that does not answer "Slot not available" is the first step of
\* no request whose block at S is gone.)
C5_SequentialLock ==
    [][
        /\ \A p \in SeqProcs : CheckoutStep(p) => \A r \in OfferedInputs :
              /\ (/\ pc'[p] # "co_delete"
                  /\ r.durationMinutes = 30
                  /\ BlocksAt(teacherAvailability, r.teacherId, r.startUtc) # {})
                     => ~CheckoutRequest(p, r)
              /\ (/\ last' # Err("checkout", 400, "Slot not available")
                  /\ BlocksAt(teacherAvailability, r.teacherId, r.startUtc) = {})
                     => ~CheckoutRequest(p, r)
        /\ \A p \in SeqProcs :
              (CheckoutCommit(p, FALSE) /\ req[p].durationMinutes = 30) =>
                  /\ last' = Ok("checkout", 0)
                  /\ BlocksAt(teacherAvailability, req[p].teacherId, req[p].startUtc) # {}
                  /\ BlocksAt(teacherAvailability', req[p].teacherId, req[p].startUtc) = {}
                  /\ \E b \in bookings' \ bookings :
                        b.teacherId = req[p].teacherId /\ b.startUtc = req[p].startUtc
        /\ \/ teacherAvailability' \subseteq teacherAvailability
           \/ \E p \in Procs : pc[p] \in {"ca_insert", "mi_loop"}
    ]_vars

C5_Witness ==
    /\ last = Err("checkout", 400, "Slot not available")
    /\ bookingSeq = 1
    /\ \E b \in bookings :
          /\ b.teacherId = ATeacher /\ b.startUtc = FirstBlock /\ b.durationMinutes = 30
          /\ b.status \in {"pending", "paid"}
    /\ BlocksAt(teacherAvailability, ATeacher, FirstBlock) = {}

\* C6.  With STRIPE_DISABLED = "1" a reservation that passes the checks
\* succeeds, and the one step that makes its booking visible, with status paid,
\* also removes the blocks it consumed: no step of a checkout creates the
\* booking without deleting the blocks or deletes blocks without the booking.
C6_PaidAndDeletedTogether ==
    [][
        stripeDisabled =>
            \A p \in SeqProcs :
                /\ (pc[p] = "idle" /\ pc'[p] = "co_delete") => UNCHANGED Stored
                /\ (pc[p] = "co_delete" /\ pc'[p] = "idle") =>
                      /\ last' = Ok("checkout", 0)
                      /\ \E b \in bookings' :
                            /\ b \notin bookings /\ bookings' = bookings \cup {b}
                            /\ b.status = "paid"
                            /\ b.teacherId = req[p].teacherId /\ b.startUtc = req[p].startUtc
                            /\ b.endUtc = b.startUtc + req[p].durationMinutes
                            /\ \A s \in Instants(b.startUtc, b.endUtc) :
                                  /\ BlocksAt(teacherAvailability, b.teacherId, s) # {}
                                  /\ BlocksAt(teacherAvailability', b.teacherId, s) = {}
    ]_vars

C6_Witness ==
    /\ stripeDisabled
    /\ last = Ok("checkout", 0)
    /\ \E b \in bookings :
          /\ b.id = bookingSeq /\ b.status = "paid" /\ b.durationMinutes = 60
          /\ \A s \in Instants(b.startUtc, b.endUtc) :
                BlocksAt(teacherAvailability, b.teacherId, s) = {}

\* C7.  With payment enabled a successful reservation adds exactly one
\* booking, pending and carrying the checkout session id, and deletes exactly
\* the required blocks: the one at S, and the one at S + 30 for 60 minutes.
C7_PendingWithSession ==
    [][
        ~stripeDisabled =>
            \A p \in SeqProcs :
                CheckoutCommit(p, FALSE) =>
                    /\ last' = Ok("checkout", 0)
                    /\ \E b \in bookings' :
                          /\ b \notin bookings /\ bookings' = bookings \cup {b}
                          /\ \A a \in bookings : a.id # b.id
                          /\ b.status = "pending" /\ b.stripeCheckoutSessionId # NULL
                          /\ b.teacherId = req[p].teacherId /\ b.studentId = req[p].user
                          /\ b.startUtc = req[p].startUtc
                          /\ b.durationMinutes = req[p].durationMinutes
                    /\ \A s \in Wanted(req[p].startUtc, req[p].durationMinutes) :
                          BlocksAt(teacherAvailability, req[p].teacherId, s) # {}
                    /\ teacherAvailability' =
                          {r \in teacherAvailability :
                              ~(r.teacherId = req[p].teacherId
                                  /\ r.startUtc \in Wanted(req[p].startUtc, req[p].durationMinutes))}
    ]_vars

C7_Witness ==
    /\ ~stripeDisabled
    /\ last = Ok("checkout", 0)
    /\ \E b \in bookings :
          /\ b.id = bookingSeq /\ b.status = "pending" /\ b.stripeCheckoutSessionId # NULL
          /\ b.durationMinutes = 60
          /\ \A s \in Wanted(b.startUtc, 60) :
                BlocksAt(teacherAvailability, b.teacherId, s) = {}

ValidationErrors ==
    {"Missing/invalid fields", "Invalid startUtc",
     "Only 30/60 supported right now (45 requires 15-min grid)."}

\* C8.  A reservation request with a duration other than 30 or 60, or with a
\* missing or invalid field, is rejected by the validation that precedes the
\* transaction: nothing stored changes, no booking id is drawn, no transaction
\* is opened.  (Read from the step: a step that is not such a rejection is the
\* first step of no such request.)
C8_RejectedBeforeTransaction ==
    [][
        \A p \in SeqProcs : \A r \in InvalidInputs :
            (/\ CheckoutStep(p)
             /\ ~(/\ last'.op = "checkout" /\ last'.status = 400
                  /\ last'.error \in ValidationErrors
                  /\ UNCHANGED <<bookings, teacherAvailability, bookingSeq, pc, tx>>))
                => ~CheckoutRequest(p, r)
    ]_vars

C8_Witness ==
    /\ last = Err("checkout", 400, "Only 30/60 supported right now (45 requires 15-min grid).")
    /\ BlocksAt(teacherAvailability, ATeacher, FirstBlock) # {}
    /\ bookingSeq = 0

\* C9.  A reservation for a duration the teacher has no active offer for fails
\* with "No price for this duration" and changes neither bookings nor blocks,
\* whether or not the required blocks exist.  (Read from the step: a step that
\* is not such a failure is the first step of no such request.)
C9_NoPrice ==
    [][
        \A p \in SeqProcs : \A r \in UnofferedInputs :
            (/\ CheckoutStep(p)
             /\ ~(/\ last' = Err("checkout", 400, "No price for this duration")
                  /\ UNCHANGED <<bookings, teacherAvailability, bookingSeq, pc, tx>>))
                => ~CheckoutRequest(p, r)
    ]_vars

C9_Witness ==
    /\ last = Err("checkout", 400, "No price for this duration")
    /\ \E t \in OtherTeachers : BlocksAt(teacherAvailability, t, FirstBlock) # {}

\* C10.  With requests served one after the other, the owner's cancel of a
\* pending booking is accepted, sets the status to canceled, leaves exactly one
\* 30-minute block of the teacher at each of start, start + 30, ... < end,
\* reports as restored the number of those instants that had no block, and
\* inserts no block anywhere else.  (Acceptance is read from the step: a step
\* that answers a cancel at once is the first step of no such cancel.)
C10_CancelRestores ==
    [][
        \A p \in SeqProcs :
            /\ \A r \in CancelInputs :
                  (/\ pc[p] = "idle" /\ last'.op = "cancel"
                   /\ \E b \in bookings :
                         b.id = r.bookingId /\ b.studentId = r.user /\ b.status = "pending")
                      => ~CancelRequest(p, r)
            /\ (pc[p] = "idle" /\ pc'[p] \in {"ca_update", "ca_read"}) => UNCHANGED Stored
            /\ (pc[p] \in {"ca_update", "ca_read", "ca_insert"}
                  /\ \E b \in tx[p].b : b.status = "pending") =>
                  IF pc'[p] # "idle" THEN UNCHANGED Stored
                  ELSE \E b \in tx[p].b :
                        /\ bookings' = {IF x.id = b.id THEN [x EXCEPT !.status = "canceled"]
                                        ELSE x : x \in bookings}
                        /\ \E c \in bookings' : c.id = b.id /\ c.status = "canceled"
                        /\ \A s \in Instants(b.startUtc, b.endUtc) :
                              /\ Cardinality(BlocksAt(teacherAvailability', b.teacherId, s)) = 1
                              /\ \A x \in BlocksAt(teacherAvailability', b.teacherId, s) :
                                    x.endUtc = s + 30
                        /\ last' = Ok("cancel",
                               Cardinality({s \in Instants(b.startUtc, b.endUtc) :
                                   BlocksAt(teacherAvailability, b.teacherId, s) = {}}))
                        /\ teacherAvailability \subseteq teacherAvailability'
                        /\ \A x \in teacherAvailability' \ teacherAvailability :
                              x.teacherId = b.teacherId
                                /\ x.startUtc \in Instants(b.startUtc, b.endUtc)
    ]_vars

C10_Witness ==
    /\ last = Ok("cancel", 1)
    /\ \E b \in bookings :
          /\ b.status = "canceled" /\ b.durationMinutes = 60
          /\ \A s \in Instants(b.startUtc, b.endUtc) :
                Cardinality(BlocksAt(teacherAvailability, b.teacherId, s)) = 1

\* what every first step of a cancel in slot p shows
CancelStep(p) == pc[p] = "idle" /\ (last'.op = "cancel" \/ pc'[p] \in {"ca_update", "ca_read"})

\* a cancel answered with a failure that wrote nothing and left no transaction
\* open
CancelFails(p) ==
    /\ last'.op = "cancel" /\ last'.status >= 400
    /\ UNCHANGED Stored
    /\ pc'[p] = "idle" /\ tx'[p] = EmptyTx

\* the last step of a cancel in slot p
CancelEnds(p) == pc[p] \in {"ca_read", "ca_insert"} /\ pc'[p] = "idle"

\* C11.  With requests served one after the other, cancelling the same pending
\* booking twice in a row: the first call restores the missing blocks, the
\* second is accepted and answers restored = 0, and afterwards the teacher has
\* exactly one block at each instant of the booking.  (Read as: every cancel
\* that ends leaves the booking canceled with exactly one block at each of its
\* instants and reports the number of blocks it added; the owner's cancel of a
\* canceled booking is accepted; and a cancel of a canceled booking that finds
\* a block at each instant, as the first call has left them, answers
\* restored = 0 and writes nothing.)
C11_CancelTwice ==
    [][
        \A p \in SeqProcs :
            /\ CancelStep(p) => \A r \in CancelInputs :
                  (/\ last'.op = "cancel"
                   /\ \E b \in bookings :
                         b.id = r.bookingId /\ b.studentId = r.user /\ b.status = "canceled")
                      => ~CancelRequest(p, r)
            /\ CancelEnds(p) => \A b \in tx[p].b :
                  /\ \E c \in bookings' : c.id = b.id /\ c.status = "canceled"
                  /\ \A s \in Instants(b.startUtc, b.endUtc) :
                        Cardinality(BlocksAt(teacherAvailability', b.teacherId, s)) = 1
                  /\ last'.op = "cancel" /\ last'.status = 200
                  /\ last'.restored =
                        Cardinality(teacherAvailability') - Cardinality(teacherAvailability)
                  /\ (/\ b.status = "canceled"
                      /\ \A s \in Instants(b.startUtc, b.endUtc) :
                            BlocksAt(teacherAvailability, b.teacherId, s) # {})
                        => /\ last' = Ok("cancel", 0)
                           /\ UNCHANGED Stored
    ]_vars

C11_Witness ==
    \E p \in SeqProcs :
        /\ pc[p] = "ca_insert"
        /\ tx[p].toInsert = {}
        /\ \E b \in tx[p].b :
              /\ b.status = "canceled" /\ b.durationMinutes = 60
              /\ \A s \in Instants(b.startUtc, b.endUtc) :
                    Cardinality(BlocksAt(teacherAvailability, b.teacherId, s)) = 1

\* C12.  In every reachable state, cancelling a booking that is already
\* canceled is a no-op success: it is never answered with an error, it answers
\* restored = 0 and it inserts no block, whatever has happened to the teacher's
\* blocks since the first cancellation.
C12_CancelCanceledIsNoOp ==
    [][
        \A p \in SeqProcs :
            (CancelEnds(p) /\ \E b \in tx[p].b : b.status = "canceled")
                => /\ last' = Ok("cancel", 0)
                   /\ teacherAvailability' = teacherAvailability
    ]_vars

CannotCancel ==
    {"Cannot cancel booking with status paid", "Cannot cancel booking with status refunded"}

\* C13.  A cancel of a booking whose status is paid or refunded fails with an
\* error and changes nothing: the status stays, no block is inserted, no
\* transaction stays open; to the booking's owner the error is 400 "Cannot
\* cancel booking with status ...".  (Read from the step: a step that is not
\* such a failure is the first step of no such cancel.)
C13_PaidCannotCancel ==
    [][
        \A p \in SeqProcs : CancelStep(p) => \A r \in CancelInputs :
            (/\ \E b \in bookings :
                   /\ b.id = r.bookingId /\ b.status \in {"paid", "refunded"}
                   /\ \/ ~CancelFails(p)
                      \/ r.user = b.studentId
                            /\ ~(last'.status = 400 /\ last'.error \in CannotCancel))
                => ~CancelRequest(p, r)
    ]_vars

C13_Witness ==
    /\ last = Err("cancel", 400, "Cannot cancel booking with status paid")
    /\ \E b \in bookings : b.status = "paid" /\ b.stripePaymentIntentId # NULL

\* C14.  A cancel of booking b requested by an authenticated user other than
\* b.studentId, b's teacher included, is answered 404 "Booking not found" and
\* leaves every booking and every block as they are.  (Read from the step: a
\* step that is not such a rejection is the first step of no such cancel.)
C14_OnlyOwnerCancels ==
    [][
        \A p \in SeqProcs : CancelStep(p) => \A r \in CancelInputs :
            (/\ r.user # NoUser
             /\ \E b \in bookings : b.id = r.bookingId /\ b.studentId # r.user
             /\ ~(/\ last' = Err("cancel", 404, "Booking not found")
                  /\ UNCHANGED <<bookings, teacherAvailability, pc, tx>>))
                => ~CancelRequest(p, r)
    ]_vars

C14_Witness ==
    /\ last = Err("cancel", 404, "Booking not found")
    /\ \E b \in bookings :
          /\ b.status = "pending"
          /\ CancelPrecheck([NoReq EXCEPT !.op = "cancel", !.user = b.teacherId,
                                    !.bookingId = b.id]) = last

\* the payment confirmations: checkout.session.completed with a valid signature
Confirmations ==
    {r \in WebhookInputs : r.sig = "valid" /\ r.type = "checkout.session.completed"}

C16_MarksPendingPaid ==
    [][
        last'.op = "webhook" => \A r \in Confirmations :
            (\E b \in bookings :
                /\ b.id = r.bookingId /\ b.status = "pending"
                /\ ~(/\ last'.status = 200
                     /\ bookings' = (bookings \ {b}) \cup
                           {[b EXCEPT !.status = "paid",
                                      !.stripeCheckoutSessionId = r.bookingId,
                                      !.stripePaymentIntentId = r.paymentIntent]}
                     /\ r.paymentIntent # NULL
                     /\ teacherAvailability' = teacherAvailability))
                => ~Webhook(r)
    ]_vars

C16_Witness ==
    /\ ~stripeDisabled
    /\ last = Ok("webhook", 0)
    /\ \E b \in bookings :
          /\ b.status = "paid" /\ b.stripePaymentIntentId # NULL
          /\ b.stripeCheckoutSessionId = b.id
          /\ BlocksAt(teacherAvailability, b.teacherId, b.startUtc) = {}

\* C17.  Duplicate delivery is tolerated: every payment confirmation is
\* answered 200; a delivery for an existing booking leaves it paid with the
\* event's session id and payment intent; and a delivery that finds the
\* booking so, as the first delivery has left it, changes nothing.  (Read from
\* the step: a step that does otherwise is the delivery of no confirmation.)
C17_DuplicateDelivery ==
    [][
        last'.op = "webhook" => \A r \in Confirmations :
            (\/ last'.status # 200
             \/ \E b \in bookings :
                   /\ b.id = r.bookingId
                   /\ \/ [b EXCEPT !.status = "paid",
                                   !.stripeCheckoutSessionId = r.bookingId,
                                   !.stripePaymentIntentId = r.paymentIntent] \notin bookings'
                      \/ /\ b.status = "paid"
                         /\ b.stripeCheckoutSessionId = r.bookingId
                         /\ b.stripePaymentIntentId = r.paymentIntent
                         /\ ~UNCHANGED Stored)
                => ~Webhook(r)
    ]_vars

C17_Witness ==
    /\ stripeDisabled
    /\ last = Ok("webhook", 0)
    /\ \E b \in bookings :
          /\ b.status = "paid" /\ b.stripePaymentIntentId # NULL
          /\ b.stripeCheckoutSessionId = b.id

\* C18 (Uniqueness).  In every state the availability store can reach, by
\* any sequence or interleaving of manual inserts, deletions, reservations and
\* cancellation restores, no two blocks of the same teacher share a start
\* instant.
C18_Uniqueness ==
    \A x \in teacherAvailability : \A y \in teacherAvailability :
        (x.teacherId = y.teacherId /\ x.startUtc = y.startUtc) => x = y

\* C19 (Block shape).  Every stored block, whether written by a manual insert
\* or by a cancellation restore, is exactly 30 minutes long and starts on the
\* 30-minute UTC grid.
C19_BlockShape ==
    \A x \in teacherAvailability :
        /\ x.endUtc - x.startUtc = 30
        /\ x.startUtc % 30 = 0

C19_Witness ==
    /\ last = Ok("cancel", 2)
    /\ \E b \in bookings :
          /\ b.status = "canceled"
          /\ \A s \in Instants(b.startUtc, b.endUtc) :
                \E x \in BlocksAt(teacherAvailability, b.teacherId, s) : x.endUtc = s + 30

\* the rows among `rows` that are identical to slot sl of teacher t
SameRow(rows, t, sl) ==
    {x \in rows : x.teacherId = t /\ x.startUtc = sl.startUtc /\ x.endUtc = sl.endUtc}

\* C20 (Idempotent insert).  With requests served one after the other,
\* submitting the same range twice leaves the rows as submitting it once does,
\* and a row is inserted only when no identical (teacherId, startUtc, endUtc)
\* row exists.  (Read as: an insert that ends has kept every row, leaves
\* exactly one row for each 30-minute slot of its range, has added only rows
\* for slots of its range that had none, and, finding a row for every slot as
\* the first submission has left them, changes nothing.)
C20_IdempotentInsert ==
    [][
        \A p \in SeqProcs :
            (pc[p] = "mi_loop" /\ pc'[p] = "idle") =>
                LET t == req[p].teacherId
                    slots == SplitIntoGridSlots(req[p].startUtc, req[p].endUtc)
                IN  /\ last' = Ok("insert", 0)
                    /\ bookings' = bookings
                    /\ teacherAvailability \subseteq teacherAvailability'
                    /\ \A i \in 1..Len(slots) :
                          Cardinality(SameRow(teacherAvailability', t, slots[i])) = 1
                    /\ \A x \in teacherAvailability' \ teacherAvailability :
                          /\ x.teacherId = t
                          /\ \E i \in 1..Len(slots) :
                                /\ x.startUtc = slots[i].startUtc /\ x.endUtc = slots[i].endUtc
                                /\ SameRow(teacherAvailability, t, slots[i]) = {}
                    /\ (\A i \in 1..Len(slots) :
                            SameRow(teacherAvailability, t, slots[i]) # {})
                          => teacherAvailability' = teacherAvailability
    ]_vars

C20_Witness ==
    \E p \in SeqProcs :
        /\ pc[p] = "mi_loop"
        /\ tx[p].slots = <<>>
        /\ tx[p].toInsert = {}
        /\ Len(SplitIntoGridSlots(req[p].startUtc, req[p].endUtc)) = 2
        /\ Cardinality(BlocksAt(teacherAvailability, req[p].teacherId, FirstBlock)) = 1

\* ------------------------------------------------------------------- C21

\* the instants of the 30-minute grid that an insert can name
GridInstants == {GRID_MINUTES * i : i \in 0..(AvailBlocks + 1)}

\* the grid instants t at or after the range's rounded-down start with
\* t + 30 not after its end
WholeBlocks(startUtc, endUtc) ==
    {t \in GridInstants :
        t >= startUtc - (startUtc % GRID_MINUTES) /\ t + GRID_MINUTES <= endUtc}

\* C21: an insert of [start, end) with end > start is split into consecutive
\* 30-minute rows from the start rounded down to the grid, one row [t, t + 30)
\* for exactly the grid instants t at or after that start with t + 30 <= end
\* (a trailing part shorter than 30 minutes gives no row); when there is no
\* such row the request is answered "Empty selection" and nothing changes.
C21_AtomicDecomposition ==
    [][\A p \in SeqProcs :
          /\ (pc[p] = "idle" /\ pc'[p] = "mi_loop") =>
                LET rows == tx'[p].slots
                    starts == WholeBlocks(req'[p].startUtc, req'[p].endUtc)
                IN  /\ req'[p].endUtc > req'[p].startUtc
                    /\ rows # <<>>
                    /\ rows[1].startUtc = req'[p].startUtc - (req'[p].startUtc % GRID_MINUTES)
                    /\ \A k \in 1..Len(rows) : rows[k].endUtc = rows[k].startUtc + GRID_MINUTES
                    /\ \A k \in 1..(Len(rows) - 1) : rows[k + 1].startUtc = rows[k].endUtc
                    /\ {rows[k].startUtc : k \in 1..Len(rows)} = starts
          /\ last'.op = "insert" =>
                \A r \in AvailInsertInputs :
                    (/\ r.user = r.teacherId
                     /\ r.endUtc # MISSING
                     /\ WholeBlocks(r.startUtc, r.endUtc) = {}
                     /\ InsertRequest(p, r)) =>
                        /\ last'.status = 400 /\ last'.error = "Empty selection"
                        /\ UNCHANGED <<teacherAvailability, pc, tx>>
    ]_vars

\* An insert that starts and ends off the grid has been split into two rows.
C21_Witness ==
    \E p \in SeqProcs :
        /\ pc[p] = "mi_loop"
        /\ req[p].startUtc % GRID_MINUTES # 0 /\ req[p].endUtc % GRID_MINUTES # 0
        /\ Len(tx[p].slots) = 2

\* ------------------------------------------------------------ C22 .. C24

\* a delete the first teacher sends for its own calendar
OwnDelete == [NoReq EXCEPT !.op = "delete", !.user = ATeacher, !.teacherId = ATeacher]

\* the first teacher's rows that overlap [from, to)
Overlapping(from, to) ==
    {row \in teacherAvailability :
        row.teacherId = ATeacher /\ row.startUtc < to /\ row.endUtc > from}

\* the step removes exactly the rows in `removed`
Removes(removed) == teacherAvailability' = teacherAvailability \ removed

\* C22: a delete by merged-event id or by UTC range [from, to) removes exactly
\* the teacher's rows with startUtc < to and endUtc > from (a row that only
\* touches the range stays, and so does every row of another teacher) and
\* answers with the number of rows it removed; a delete by row id removes the
\* row with that id if it is the teacher's and nothing else.
C22_DeleteRemovesOverlapping ==
    [][last'.op = "delete" =>
          /\ \A x \in AvailRanges :
                /\ \/ /\ Removes(Overlapping(x[1], x[2]))
                      /\ last'.status = 200 /\ last'.mode = "range"
                      /\ last'.deleted = Cardinality(Overlapping(x[1], x[2]))
                   \/ ~DeleteRequest([OwnDelete EXCEPT !.startUtc = x[1], !.endUtc = x[2]])
                /\ \/ /\ Removes(Overlapping(x[1], x[2]))
                      /\ last'.status = 200 /\ last'.mode = "eventId"
                      /\ last'.deleted = Cardinality(Overlapping(x[1], x[2]))
                   \/ ~DeleteRequest([OwnDelete EXCEPT
                          !.eventId = EventId(ATeacher, toIso(x[1]), toIso(x[2]))])
          /\ \A t \in Teachers :
                \/ Removes({row \in teacherAvailability :
                               row.id = <<t, FirstBlock, 1>> /\ row.teacherId = ATeacher})
                \/ ~DeleteRequest([OwnDelete EXCEPT !.rowId = <<t, FirstBlock, 1>>])
    ]_vars

\* A delete by event id has removed two rows and left the row that touches
\* them, and a row of another teacher.
C22_Witness ==
    /\ last.op = "delete" /\ last.status = 200
    /\ last.mode = "eventId" /\ last.deleted = 2
    /\ \E row \in teacherAvailability : row.teacherId = ATeacher
    /\ \E row \in teacherAvailability : row.teacherId # ATeacher

\* the instant an ISO string stands for
InstantOf(iso) == CHOOSE t \in AvailStarts \cup AvailEnds : toIso(t) = iso

C24_TeacherOwnership ==
    [][/\ \A p \in SeqProcs :
             (InFlight(p) /\ req[p].op \in {"insert", "rule"}
                /\ req[p].user # req[p].teacherId) =>
                    UNCHANGED <<teacherAvailability, availabilityOverrides>>
       /\ last'.op = "delete" =>
             \A r \in OwnerDeleteInputs :
                 (r.user # r.teacherId /\ DeleteRequest(r)) => UNCHANGED teacherAvailability
       /\ last'.op = "insert" =>
             \A r \in OwnerInsertInputs :
                 (r.user # r.teacherId /\ InsertRequest(1, r)) =>
                     UNCHANGED teacherAvailability
    ]_vars

\* ------------------------------------------------------------ C25 .. C28

MergeDone == call.fn = "mergeIntervals" /\ call.done
SubtractDone == call.fn = "subtractIntervals" /\ call.done

IsValid(i) == i.startMs # NaN /\ i.endMs # NaN /\ i.endMs > i.startMs
AllValid(l) == \A k \in 1..Len(l) : IsValid(l[k])

\* the unit cells [c, c + 1) that lie in an interval of the list
Cells(l) ==
    {c \in 0..(MaxPoint - 1) :
        \E k \in 1..Len(l) : IsValid(l[k]) /\ l[k].startMs <= c /\ c < l[k].endMs}

\* C25: for valid intervals the result of mergeIntervals is sorted by start,
\* no two of its intervals overlap or touch, and it covers exactly what the
\* input covers.
C25_MergeShape ==
    (MergeDone /\ AllValid(call.args[1])) =>
        LET out == call.result.value
        IN  /\ call.result.threw = ""
            /\ AllValid(out)
            /\ \A k \in 1..(Len(out) - 1) : out[k].endMs < out[k + 1].startMs
            /\ Cells(out) = Cells(call.args[1])

\* Three valid intervals given out of order have been merged into two.
C25_Witness ==
    /\ MergeDone /\ AllValid(call.args[1])
    /\ Len(call.args[1]) = 3 /\ Len(call.result.value) = 2
    /\ call.args[1][1].startMs > call.args[1][3].startMs

\* the lists that hold the intervals of l in another order
Reorderings(l) ==
    {[k \in 1..Len(l) |-> l[f[k]]] : f \in Permutations(1..Len(l))}

\* C26: mergeIntervals gives the same result for the same intervals in any
\* order, and merging its result again changes nothing.
C26_MergeIdempotent ==
    MergeDone =>
        /\ call.result.threw = ""
        /\ mergeIntervals(call.result.value) = call.result
        /\ \A l \in Reorderings(call.args[1]) : mergeIntervals(l) = call.result

\* Three different intervals, the first starting last, have been merged.
C26_Witness ==
    /\ MergeDone
    /\ Len(call.args[1]) = 3
    /\ Cardinality({call.args[1][k] : k \in 1..3}) = 3
    /\ call.args[1][1].startMs > call.args[1][2].startMs
    /\ call.args[1][2].startMs > call.args[1][3].startMs
    /\ call.result.value # <<>>

\* C27: for valid intervals the result of subtractIntervals consists of
\* non-empty intervals, sorted and pairwise disjoint, that lie in the base,
\* miss the cut and cover every point of the base that the cut does not.
C27_SubtractShape ==
    (SubtractDone /\ AllValid(call.args[1]) /\ AllValid(call.args[2])) =>
        LET out == call.result.value
        IN  /\ call.result.threw = ""
            /\ AllValid(out)
            /\ \A k \in 1..(Len(out) - 1) : out[k].endMs <= out[k + 1].startMs
            /\ Cells(out) = Cells(call.args[1]) \ Cells(call.args[2])

\* A cut inside the base has left a part on either side of it.
C27_Witness ==
    /\ SubtractDone /\ AllValid(call.args[1]) /\ AllValid(call.args[2])
    /\ call.args[2] # <<>>
    /\ Len(call.result.value) = 2

\* an interval whose end is not after its start
EndsBeforeStart(l) ==
    \E k \in 1..Len(l) : l[k].startMs # NaN /\ l[k].endMs # NaN /\ l[k].endMs <= l[k].startMs

\* C28: mergeIntervals drops an interval with end <= start without a word and
\* merges the rest; subtractIntervals given such an interval raises an
\* invalid-interval error.
C28_MalformedPolicy ==
    /\ MergeDone =>
          /\ call.result.threw = ""
          /\ call.result = mergeIntervals(SelectSeq(call.args[1], IsValid))
    /\ (SubtractDone /\ (EndsBeforeStart(call.args[1]) \/ EndsBeforeStart(call.args[2]))) =>
          call.result.threw = "Invalid interval (end <= start)"

\* ------------------------------------------------------------ C29 .. C30

GenerateDone == call.fn = "generateSlots" /\ call.done

\* the instants of the 15-minute grid
StartGrid == {t \in 0..(SlotBlocks * GRID_MINUTES) : t % 15 = 0}

\* the durations asked for that the generator supports
ActiveDurations == {call.args[4][k] : k \in 1..Len(call.args[4])} \cap {30, 45, 60}

\* [t, e) lies in the query range and every minute of it is available; an
\* unbroken stretch of availability is one merged interval
Fits(t, e) ==
    /\ call.args[2] <= t /\ e <= call.args[3]
    /\ \A m \in t..(e - 1) :
          \E k \in 1..Len(call.args[1]) :
              call.args[1][k].startMs <= m /\ m < call.args[1][k].endMs

\* C29: every slot generated starts on the 15-minute grid, has one of the
\* active durations among 30, 45 and 60, ends at start + duration and lies in
\* one merged availability interval clipped to the query range; and every
\* grid start and active duration that fit so are among the slots.
C29_SlotsExactlyThoseThatFit ==
    GenerateDone =>
        /\ \A k \in 1..Len(call.result) :
              LET t == parseIsoUtc(call.result[k].startUtc)
                  e == parseIsoUtc(call.result[k].endUtc)
              IN  /\ t \in StartGrid
                  /\ call.result[k].durationMinutes \in ActiveDurations
                  /\ e = t + call.result[k].durationMinutes
                  /\ Fits(t, e)
        /\ \A t \in StartGrid, d \in ActiveDurations :
              Fits(t, t + d) =>
                  \E k \in 1..Len(call.result) :
                      /\ call.result[k].startUtc = toIso(t)
                      /\ call.result[k].endUtc = toIso(t + d)
                      /\ call.result[k].durationMinutes = d

\* A query that starts off the grid over two rows has given slots, one of
\* them of 45 minutes starting between two instants of the 30-minute grid.
C29_Witness ==
    /\ GenerateDone
    /\ call.args[2] % 15 # 0
    /\ Len(call.args[1]) = 2
    /\ \E k \in 1..Len(call.result) :
          /\ call.result[k].durationMinutes = 45
          /\ parseIsoUtc(call.result[k].startUtc) % GRID_MINUTES # 0
    /\ Len(call.result) >= 3

\* C30: no two entries of the listing have the same start, end and duration,
\* and the entries are in order of start, those of one start in order of
\* duration.
C30_SortedNoDuplicates ==
    GenerateDone =>
        \A i \in 1..Len(call.result), j \in 1..Len(call.result) :
            i < j =>
                LET a == call.result[i]
                    b == call.result[j]
                IN  /\ a # b
                    /\ \/ parseIsoUtc(a.startUtc) < parseIsoUtc(b.startUtc)
                       \/ /\ parseIsoUtc(a.startUtc) = parseIsoUtc(b.startUtc)
                          /\ a.durationMinutes < b.durationMinutes

\* Durations asked for longest first, over two rows that overlap, have given
\* slots of both durations.
C30_Witness ==
    /\ GenerateDone
    /\ call.args[4] = <<60, 30>>
    /\ Len(call.args[1]) = 2
    /\ call.args[1][1].startMs < call.args[1][2].endMs
    /\ call.args[1][2].startMs < call.args[1][1].endMs
    /\ call.args[1][1] # call.args[1][2]
    /\ \E k \in 1..Len(call.result) : call.result[k].durationMinutes = 60
    /\ \E k \in 1..Len(call.result) : call.result[k].durationMinutes = 30


\* ------------------------------------------------------------ C31 .. C40

\* C31: a teacher without an active lesson offer has no free slots: every
\* listing answered for such a teacher is empty, whatever rows are stored.
C31_NoOfferNoSlots ==
    [][\A r \in FreeInputs :
          (FreeSlotsRequest(r) /\ last'.status = 200 /\ ActiveOffers(r.teacherId) = {})
              => last'.slots = <<>>
    ]_vars


\* the grid instants of the days the expansion walks
RuleGrid == {GRID_MINUTES * i : i \in 0..(((HorizonDays + 1) * DAY_MINUTES) \div GRID_MINUTES - 1)}

\* the grid cells [c, c + GRID_MINUTES) inside a range
CellsOf(b) == {c \in RuleGrid : b.startUtc <= c /\ c + GRID_MINUTES <= b.endUtc}

\* the teacher's stored 'add' ranges
AddRanges(teacherId) ==
    {o \in availabilityOverrides : o.teacherId = teacherId /\ o.kind = "add"}

\* no two of the ranges overlap or touch
Apart(ranges) ==
    \A a \in ranges : \A b \in ranges :
        a # b => (a.endUtc < b.startUtc \/ b.endUtc < a.startUtc)

\* the blocks of the stored rules of the teacher whose expansion is over,
\* and those of the rule under expansion that have been inserted
BlocksOf(rule) ==
    LET blocks == RuleBlocks(rule, 0) IN {blocks[k] : k \in 1..Len(blocks)}

InsertedBlocks(teacherId) ==
    LET running == {p \in Procs : InFlight(p) /\ req[p].op = "rule"}
        latest == {rule \in availabilityRules : running # {}
                                                  /\ rule.id = Cardinality(availabilityRules)}
        pending == UNION {{tx[p].blocks[k] : k \in 1..Len(tx[p].blocks)} : p \in running}
    IN  UNION {BlocksOf(rule) : rule \in {x \in availabilityRules \ latest :
                                              x.teacherId = teacherId}}
          \cup UNION {BlocksOf(rule) \ pending : rule \in {x \in latest :
                                                           x.teacherId = teacherId}}

\* C32: whenever a merged-block insert has completed (the expansion stands
\* before its next block or is over), no two stored 'add' ranges of the
\* teacher overlap or touch, and the ranges cover exactly what the blocks
\* inserted so far cover: each insert adds its block to the union of what was
\* stored and nothing else.
C32_MergeOnWrite ==
    (\A p \in SeqProcs : pc[p] \in {"idle", "mb_select"}) =>
        \A t \in Teachers :
            /\ Apart(AddRanges(t))
            /\ UNION {CellsOf(o) : o \in AddRanges(t)}
                  = UNION {CellsOf(b) : b \in InsertedBlocks(t)}

\* Two rules whose blocks touch have been expanded: one range holds both
\* blocks of the first day.
C32_Witness ==
    /\ AllIdle
    /\ Cardinality(availabilityRules) = 2
    /\ \E o \in AddRanges(ATeacher) :
          o.startUtc = 0 /\ o.endUtc = 2 * GRID_MINUTES


\* C37: merged-block inserts that run at the same time behave as if they ran
\* one after the other: once every expansion is over, no two stored 'add'
\* ranges of a teacher overlap or touch, and no block that was inserted is
\* missing from the ranges.
C37_MergedInsertAtomic ==
    AllIdle =>
        \A t \in Teachers :
            /\ Apart(AddRanges(t))
            /\ \A rule \in availabilityRules :
                  rule.teacherId = t =>
                      \A b \in BlocksOf(rule) :
                          CellsOf(b) \subseteq UNION {CellsOf(o) : o \in AddRanges(t)}


\* the teacher's bookings that hold time
ActiveBookings == {b \in bookings : b.status \in {"pending", "paid"}}

\* C34: no two pending or paid bookings of one teacher overlap, whatever
\* sequence of reservations, plain creates, cancellations and confirmations
\* led to the state.
C34_NoDoubleSelling ==
    \A a \in ActiveBookings : \A b \in ActiveBookings :
        (a.id # b.id /\ a.teacherId = b.teacherId)
            => (a.endUtc <= b.startUtc \/ b.endUtc <= a.startUtc)

\* C35: no atomic block of a teacher lies at an instant that a pending or paid
\* booking of that teacher holds.
C35_LockConsistency ==
    \A b \in ActiveBookings :
        \A row \in teacherAvailability :
            row.teacherId = b.teacherId
                => (row.endUtc <= b.startUtc \/ b.endUtc <= row.startUtc)


\* the (startUtc, endUtc) pairs of the teacher's atomic blocks among rows
PairsOf(rows, teacherId) ==
    {<<r.startUtc, r.endUtc>> : r \in {x \in rows : x.teacherId = teacherId}}

\* the atomic blocks a booking stands for
SlotPairs(b) == {<<s, s + GRID_MINUTES>> : s \in Instants(b.startUtc, b.endUtc)}

\* the reservation a booking was made by, sent again
Again(b) ==
    [NoReq EXCEPT !.op = "checkout", !.user = b.studentId, !.teacherId = b.teacherId,
                  !.startUtc = b.startUtc, !.durationMinutes = b.durationMinutes]

\* C36: a reservation followed by its cancellation is a round trip.  The step
\* that commits a reservation (payment enabled) leaves the booking pending
\* and takes exactly the booking's blocks, all of them stored, out of the
\* teacher's set of blocks; the step that ends the cancellation of a pending
\* booking, from a store that holds none of the booking's blocks (as the
\* reservation left it), puts exactly those blocks back, so that the set is
\* what it was before the reservation; and in the state it leaves the same
\* reservation passes every check again.
C36_ReserveCancelRoundTrip ==
    [][\A p \in SeqProcs :
          /\ CheckoutCommit(p, FALSE) =>
                \A nb \in tx[p].newBooking :
                    /\ SlotPairs(nb) \subseteq PairsOf(teacherAvailability, nb.teacherId)
                    /\ PairsOf(teacherAvailability', nb.teacherId)
                          = PairsOf(teacherAvailability, nb.teacherId) \ SlotPairs(nb)
                    /\ \E b \in bookings' \ bookings : b.id = nb.id /\ b.status = "pending"
          /\ (pc[p] \in {"ca_read", "ca_insert"} /\ pc'[p] = "idle") =>
                \A b \in tx[p].b :
                    (/\ b.status = "pending"
                     /\ PairsOf(teacherAvailability, b.teacherId) \cap SlotPairs(b) = {})
                        => /\ PairsOf(teacherAvailability', b.teacherId)
                                = PairsOf(teacherAvailability, b.teacherId) \cup SlotPairs(b)
                           /\ CheckoutPrecheck(Again(b))' = NoResp
    ]_vars

\* A 60-minute reservation was cancelled and the same slot has been reserved
\* again.
C36_Witness ==
    /\ last = Ok("checkout", 0)
    /\ \E a \in bookings : \E b \in bookings :
          /\ a.status = "canceled" /\ b.status = "pending"
          /\ a.stripeCheckoutSessionId # NULL /\ b.stripeCheckoutSessionId # NULL
          /\ a.durationMinutes = 60
          /\ a.teacherId = b.teacherId /\ a.startUtc = b.startUtc /\ a.endUtc = b.endUtc
          /\ a.id < b.id


\* the atomic blocks of a teacher among rows
RowsOf(rows, teacherId) == {r \in rows : r.teacherId = teacherId}

\* the teacher the request in slot p is about: the one its body names or, for
\* a cancellation, the one of the booking it fetched
TeacherOf(p) ==
    IF req[p].op = "cancel" THEN (CHOOSE b \in tx[p].b : TRUE).teacherId
    ELSE req[p].teacherId

\* C33: every step of a reservation, a cancellation restore, a manual insert
\* or a deletion leaves the atomic blocks of every teacher other than the one
\* the request (or its booking) names as they were; the first step of a
\* request other than a deletion, and a webhook, change no block at all.
C33_TeacherScoping ==
    [][/\ \A p \in SeqProcs :
             InFlight(p) =>
                 \A t \in Teachers \ {TeacherOf(p)} :
                     RowsOf(teacherAvailability', t) = RowsOf(teacherAvailability, t)
       /\ (AllIdle /\ last'.op # "delete") => UNCHANGED teacherAvailability
       /\ last'.op = "delete" =>
             \A r \in DeleteInputs \cup DeleteByIdInputs :
                 \/ \A t \in Teachers \ {r.teacherId} :
                        RowsOf(teacherAvailability', t) = RowsOf(teacherAvailability, t)
                 \/ ~DeleteRequest(r)
    ]_vars

\* The first teacher has deleted its block at the first instant and the
\* block of another teacher at the same instant is still stored.
C33_Witness ==
    /\ last.op = "delete" /\ last.status = 200 /\ last.deleted = 1 /\ last.mode = "range"
    /\ BlocksAt(teacherAvailability, ATeacher, FirstBlock) = {}
    /\ \E t \in OtherTeachers : BlocksAt(teacherAvailability, t, FirstBlock) # {}


\* C38: requests that touch the same instants of a teacher at the same time
\* leave what some serial order of them leaves.  Served one after the other,
\* a cancellation restore inserts a block only where the teacher has none, so
\* in every serial order the commit of a restore adds no block at an instant
\* at which a block of the teacher is stored; the same must hold of every
\* interleaving.
C38_RestoreSerializes ==
    [][\A p \in Procs :
          (pc[p] = "ca_insert" /\ pc'[p] = "idle") =>
              \A x \in teacherAvailability' \ teacherAvailability :
                  BlocksAt(teacherAvailability, x.teacherId, x.startUtc) = {}
    ]_vars


\* C39: every slot of 30 or 60 minutes that a listing has just returned for a
\* teacher with an active offer for that duration can be reserved: while the
\* listing is the latest response (nothing has changed since), a checkout for
\* the start and duration of one of its slots is not answered with a failure.
C39_ListedSlotsReservable ==
    [][(last.op = "free-slots" /\ last.status = 200 /\ last'.op = "checkout"
          /\ last'.status # 200) =>
          \A r \in FreeCheckoutInputs :
              (/\ r.durationMinutes \in {30, 60}
               /\ r.teacherId = last.teacherId
               /\ ActiveOffer(r.teacherId, r.durationMinutes) # {}
               /\ \E k \in 1..Len(last.slots) :
                     last.slots[k] = Slot(r.startUtc, r.startUtc + r.durationMinutes,
                                          r.durationMinutes))
                  => \A p \in SeqProcs : ~CheckoutRequest(p, r)
    ]_vars


\* the column of the displayed week in which a row starts, by the teacher's
\* clock
ColumnOf(row, tz, weekStart) ==
    (clampToDay(setZone(row.startUtc, tz)) - weekStart) \div DAY_MINUTES

\* the row holds time of band b of column col, by the teacher's clock
InBand(row, tz, weekStart, b, col) ==
    LET day == weekStart + col * DAY_MINUTES
    IN  /\ setZone(row.startUtc, tz) < day + b.endHour * 60
        /\ setZone(row.endUtc, tz) > day + b.startHour * 60

\* C40: in every preview answered, each atomic block of the teacher that
\* starts on one of the seven days shown has a band set in the column of its
\* day, and a band is set only in a column in which a block of the teacher
\* holds time of that band.
C40_PreviewCoverage ==
    [][\A r \in PreviewInputs :
          ((\E now \in NowInstants : PreviewRequest(r, now)) /\ last'.status = 200) =>
              LET tz == last'.timezone
                  weekStart == last'.fromLocal
                  rows == RowsOf(teacherAvailability, r.teacherId)
              IN  /\ \A row \in rows :
                        ColumnOf(row, tz, weekStart) \in 0..6 =>
                            \E k \in 1..Len(BLOCKS) :
                                last'.grid[k][ColumnOf(row, tz, weekStart)]
                  /\ \A k \in 1..Len(BLOCKS) : \A col \in 0..6 :
                        last'.grid[k][col] =>
                            \E row \in rows : InBand(row, tz, weekStart, BLOCKS[k], col)
    ]_vars

====
